---- MODULE Spec2Model ----
(***************************************************************************)
(* Model of the atomic-mode (USE_ATOMIC) circular buffer of the buffers    *)
(* library: the Lock_t gates and per-slot states of locking.h and the      *)
(* claim / copy / release protocol of buffer.c.                            *)
(*                                                                         *)
(* Every action is one step of one thread inside one C function: a step    *)
(* performs at most one access to memory shared between threads (a field   *)
(* of Buffer, a field of Lock_t, the file-static __lock_expect_false__, a  *)
(* payload byte), so that every interleaving of the threads' memory        *)
(* accesses is a behaviour of the model.                                   *)
(*                                                                         *)
(* The gates and the slot states are atomic objects changed by             *)
(* read-modify-write operations, which read the latest value; the plain    *)
(* fields head, tail and full are read as they are at the step.  The       *)
(* payload bytes are plain memory that one thread writes and another       *)
(* reads: the state stores that publish them are memory_order_relaxed      *)
(* (SET_LOCK_VAL) or the store half of an acquire compare-exchange, so no  *)
(* release/acquire pair orders the reader's memcpy after the writer's.     *)
(* A byte read by another thread is therefore either the byte the last     *)
(* writer stored or the byte the slot held before (Visible).               *)
(***************************************************************************)
EXTENDS Integers, Sequences, FiniteSets, TLC

(* ------------------------------ bounds -------------------------------- *)
BufSize == 2          \* largest buffer->size
TypeSize == 2         \* largest buffer->type_size
NumThreads == 2
MaxData == 2          \* element values 1..MaxData; 0 is a byte never written
IndexBits == 2        \* width of the uint16_t index stack->top, narrowed

(* ------------------------- program constants -------------------------- *)
BUFFER_FREE == 0
BUFFER_CLAIMED == 1
BUFFER_READY == 2
BUFFER_READING == 3
BUFFER_OK == 0
STACK_OK == 0
EPERM == 1
EAGAIN == 11
EBUSY == 16
EINVAL == 22
ENOSPC == 28

Threads == 1..NumThreads
Data == 1..MaxData
SlotStates == {BUFFER_FREE, BUFFER_CLAIMED, BUFFER_READY, BUFFER_READING}

\* The caller's n-byte element holding value d, and an n-byte output location
\* not yet written.
Payload(d, n) == [i \in 0..(n - 1) |-> d]
Blank(n) == [i \in 0..(n - 1) |-> 0]

Min(a, b) == IF a < b THEN a ELSE b

VARIABLES
    buffer,             \* Buffer: full, head, tail, size, type_size
    raw,                \* buffer->raw: slot -> byte offset -> byte
    lock,               \* Lock_t: read, write, slot_state
    lock_expect_false,  \* static bool __lock_expect_false__ of the translation unit
    stack,              \* Stack: full, size, type_size, top, raw, lock (and stack.c's
                        \* own copy of __lock_expect_false__)
    queue,              \* Queue over `buffer` (its slot_buffer): msg_len, slot_len
    th,                 \* per thread: position and locals of the call in progress
    hist,               \* history of completed calls (observer state, not program state)
    allocator           \* BlockAllocator: the blocks in use, the caller's pointer to
                        \* the structure made from them, and the observer's notes
                        \* on the last call made with it

vars == <<buffer, raw, lock, lock_expect_false, stack, queue, th, hist, allocator>>

Slots == 0..(buffer.size - 1)

\* A thread outside any call; r is the value its last call returned.  from
\* is the observer's copy of the buffer as it was when the call in progress
\* was made (observer state, kept with the call it belongs to).
Idle(r) ==
    [pc |-> "idle", op |-> "none", cur |-> 0, addr |-> 0, hd |-> 0, exp |-> FALSE,
     i |-> 0, size |-> 0, data |-> <<>>, res |-> r, from |-> <<>>]

\* A faulty return: instead of returning the call starts over.
Ret_Retry(t, r) == [th EXCEPT ![t].pc = "wc_load"]

Ret(t, r) == [th EXCEPT ![t] = Idle(r)]

Goto(t, l) == [th EXCEPT ![t].pc = l]

\* A BlockAllocator none of whose blocks is in use.  live are the blocks in
\* use; ptr names the structure the caller's pointer points to ("null": a
\* null pointer), lockp and bufp say whether its lock pointer and (for a
\* queue) its slot_buffer pointer are non-null.  The rest is the observer's
\* note of the last call made with the allocator: its name, whether it
\* returned a structure (allocations) or BUFFER_OK (deallocations), the blocks
\* it obtained, the blocks it handed back, and whether a blockAllocate and a
\* sub-deallocation it made failed.
NoBlocks ==
    [live |-> {}, ptr |-> "null", lockp |-> FALSE, bufp |-> FALSE,
     op |-> "none", ok |-> FALSE, got |-> {}, back |-> {}, afail |-> FALSE,
     dfail |-> FALSE]

\* CREATE_LOCK(name, len): both gates open, every slot free.
CREATE_LOCK(len) ==
    [read |-> FALSE, write |-> FALSE,
     slot_state |-> [s \in 0..(len - 1) |-> BUFFER_FREE]]

\* The state CREATE_BUFFER(name, S, T) or bufferAllocate(allocator, S, T)
\* leaves; S = 0 stands for a program that has no buffer (a null pointer).
CREATE_BUFFER(S, T) ==
    /\ buffer = [full |-> FALSE, head |-> 0, tail |-> 0, size |-> S, type_size |-> T]
    /\ raw = [s \in 0..(S - 1) |-> Blank(T)]
    /\ lock = CREATE_LOCK(S)
    /\ lock_expect_false = FALSE
    /\ allocator = NoBlocks

\* The Stack CREATE_STACK(id, count, type_size_) or stackAllocate leaves;
\* count = 0 stands for a program that has no stack.
CREATE_STACK(count, type_size_) ==
    [full |-> FALSE, size |-> count, type_size |-> type_size_, top |-> 0,
     raw |-> [s \in 0..(count - 1) |-> Blank(type_size_)],
     lock |-> CREATE_LOCK(count), lock_expect_false |-> FALSE]

\* The Queue CREATE_QUEUE(id, msg_size, msg_count) or queueAllocate leaves
\* around the buffer CREATE_BUFFER(msg_count, msg_size); msg_count = 0 stands
\* for a program that has no queue.
CREATE_QUEUE(msg_size, msg_count) ==
    [msg_len |-> [s \in 0..(msg_count - 1) |-> 0], slot_len |-> msg_size]

NoStack == CREATE_STACK(0, 0)
NoQueue == CREATE_QUEUE(0, 0)

\* The observer of a structure of N slots before any call.  `order` says
\* whether it records the counts and the order of the completed calls besides
\* the last commits, `snap` whether it keeps a copy of the buffer as it was
\* at each call.
Observer(N, order, snap) ==
    [order |-> order, occ |-> 0, nw |-> 0, widx |-> {}, wseq |-> 0,
     rseq |-> 0, fifo |-> <<>>, commit |-> [s \in 0..(N - 1) |-> 0],
     old |-> [s \in 0..(N - 1) |-> 0], by |-> [s \in 0..(N - 1) |-> 0],
     len |-> [s \in 0..(N - 1) |-> 0], run |-> 0, fresh |-> TRUE,
     pre |-> [full |-> FALSE, head |-> 0, tail |-> 0], snap |-> snap, clr |-> -1,
     got |-> 0]

\* A program with one buffer of S slots of T bytes, no call made yet.
InitObserved(S, T, order, snap) ==
    /\ CREATE_BUFFER(S, T)
    /\ stack = NoStack
    /\ queue = NoQueue
    /\ th = [t \in Threads |-> Idle(BUFFER_OK)]
    /\ hist = Observer(S, order, snap)

InitBuffer(S, T, order) == InitObserved(S, T, order, FALSE)

(* ------------------------------ locking.h ----------------------------- *)

\* Faulty variant of CLEAR_WRITE_LOCK below: the gate is left held.
CLEAR_WRITE_LOCK_Forgotten(l) == l

\* A faulty CLEAR_READ_LOCK: the gate is left as it is.
CLEAR_READ_LOCK_Forgotten(l) == l

\* CLEAR_LOCK: atomic_store_explicit(lock, false, memory_order_release)
CLEAR_WRITE_LOCK(l) == [l EXCEPT !.write = FALSE]
CLEAR_READ_LOCK(l) == [l EXCEPT !.read = FALSE]

\* SET_SLOT_STATE: unconditional atomic store
SET_SLOT_STATE(l, index, val) == [l EXCEPT !.slot_state[index] = val]

\* Faulty variants of the operators below; a property that depends on the
\* compare-and-set or on the address computation fails under them.
\* A compare-and-set that never compares:
SlotMatches_Always(l, index, expected) == TRUE
\* An address computation that forgets the offset of the slot:
SlotAddr_NoOffset(b, index) == 0

\* COMPARE_SET_LOCK on a slot: whether atomic_compare_exchange_strong finds
\* the expected value (and then stores val).
SlotMatches(l, index, expected) == l.slot_state[index] = expected
EXPECT_SLOT_STATE(l, index, expected, val) ==
    IF SlotMatches(l, index, expected) THEN SET_SLOT_STATE(l, index, val) ELSE l

\* (uint8_t*)buffer->raw + (index * buffer->type_size): the slot an address
\* computed by a claim points to.
SlotAddr(b, index) == index

\* COMPARE_SET_LOCK on a gate, with `expected` the value the thread loaded
\* from __lock_expect_false__: the exchange succeeds iff the gate holds it.
GateMatches(gate, expected) == gate = expected

(* ------------------------- history bookkeeping ------------------------ *)

\* bool bufferIsEmpty(buffer), bool bufferIsFull(buffer)
bufferIsEmpty(b) == ~b.full /\ b.head = b.tail
bufferIsFull(b) == b.full

\* fresh says that no write and no read has succeeded since the buffer was
\* created or last cleared; pre holds head, tail and full as they were when
\* the bufferClear in progress was called.
\* run is the number of bufferWrite calls that have succeeded since the
\* buffer was last empty between calls with no read succeeding since, -1 when
\* a read succeeded and left the buffer non-empty.
\* clr follows the calls made since the last clear returned: the number of
\* writes (pushes) that have succeeded since, as long as no read (pop) has;
\* it stays at the capacity N while the reads (pops) that follow N such
\* writes give back what they wrote, and is -1 otherwise.
\* got is the length of the message that the queueRead in progress took out
\* of its slot, 0 outside a queueRead.
AfterClearWrite(h, N) == IF h.clr \in 0..(N - 1) THEN h.clr + 1 ELSE -1
AfterClearRead(h, N) == IF h.clr = N /\ Len(h.fifo) > 1 THEN N ELSE -1

\* Thread t's bufferWrite / bufferWriteRaw / bufferWriteRelease committed slot
\* `index` after storing d.  Until the slot is read, old is the value it held
\* before and by the committing thread (0 when it holds what it held before).
NoteWrite(h0, t, index, d) ==
    LET h == [h0 EXCEPT !.old[index] = h0.commit[index],
                        !.by[index] = IF h0.commit[index] = d THEN 0 ELSE t]
    IN
    IF h.order
    THEN [h EXCEPT !.occ = Min(h.occ + 1, buffer.size + 1),
                   !.nw = Min(h.nw + 1, buffer.size + 1),
                   !.widx = h.widx \cup {index},
                   !.wseq = (h.wseq + 1) % buffer.size,
                   !.run = IF h.run < 0 THEN h.run ELSE Min(h.run + 1, buffer.size + 1),
                   !.fresh = FALSE,
                   !.fifo = IF Len(h.fifo) <= buffer.size
                            THEN Append(h.fifo, d) ELSE h.fifo,
                   !.clr = AfterClearWrite(h, buffer.size),
                   !.commit[index] = d]
    ELSE [h EXCEPT !.commit[index] = d]

\* A bufferRead / bufferReadRaw / bufferReadRelease gave slot `index` back.
NoteRead(h0, index) ==
    LET h == [h0 EXCEPT !.old[index] = h0.commit[index], !.by[index] = 0]
    IN
    IF h.order
    THEN [h EXCEPT !.occ = IF h.occ > -1 THEN h.occ - 1 ELSE h.occ,
                   !.rseq = (h.rseq + 1) % buffer.size,
                   !.run = IF bufferIsEmpty(buffer) THEN 0 ELSE -1,
                   !.fresh = FALSE,
                   !.fifo = IF h.fifo = <<>> THEN h.fifo ELSE Tail(h.fifo),
                   !.clr = AfterClearRead(h, buffer.size)]
    ELSE h

\* A bufferClear was called when head, tail and full were those of b.
NoteClearCall(h, b) ==
    IF h.order
    THEN [h EXCEPT !.pre = [full |-> b.full, head |-> b.head, tail |-> b.tail]]
    ELSE h

\* A bufferClear (stackClear) returned: nothing written before it is left to
\* read.
NoteClear(h) ==
    IF h.order
    THEN [h EXCEPT !.run = 0, !.fresh = TRUE,
                   !.pre = [full |-> FALSE, head |-> 0, tail |-> 0],
                   !.occ = 0, !.nw = 0, !.widx = {}, !.fifo = <<>>, !.clr = 0]
    ELSE h

\* Slot s is claimed by a write call that is still in progress.
WriteInProgress(s) ==
    \E t \in Threads :
        /\ th[t].cur = s
        /\ th[t].pc \in {"wc_adv", "wc_cmph", "wc_cmpt", "wc_setfull", "wc_unlock",
                         "w_copy", "w_ready", "u_fill", "wr_cas"}
        /\ th[t].op \in {"write", "wsplit", "wclaim", "qwrite"}

\* The buffer as a call finds it; held are the slots claimed by calls in
\* progress.
AtCall ==
    IF hist.snap
    THEN [buffer |-> buffer, raw |-> raw, slot_state |-> lock.slot_state,
          held |-> {s \in DOMAIN raw : WriteInProgress(s)},
          msg_len |-> queue.msg_len, stack |-> stack]
    ELSE <<>>

(* ------------------------------ buffer.c ------------------------------ *)

\* The values thread t can get when it reads byte i of slot s: the byte in
\* memory, or, when another thread stored it and published the slot with a
\* relaxed store, the byte the slot held before.
Visible(t, s, i) ==
    {raw[s][i]} \cup (IF hist.by[s] \notin {0, t} THEN {hist.old[s]} ELSE {})

\* The argument checks without the upper bound on size.
ArgsValid_NoUpper(buf, dat, size) ==
    /\ ~(~buf \/ ~dat)
    /\ ~(size = 0)

\* The argument checks of bufferWriteRaw and bufferReadRaw: buf and dat say
\* whether the buffer and data pointers are non-null, size is the uint16_t size.
ArgsValid(buf, dat, size) ==
    /\ ~(~buf \/ ~dat)
    /\ ~(size = 0 \/ size > buffer.type_size)

\* int bufferWriteRaw(buffer, data, size) with any arguments: data points to
\* an element holding d.
Call_bufferWriteRaw(t, buf, dat, d, size) ==
    /\ th[t].pc = "idle"
    /\ th' = IF ArgsValid(buf, dat, size)
             THEN [th EXCEPT ![t].pc = "wc_load", ![t].res = BUFFER_OK,
                             ![t].op = "write", ![t].size = size,
                             ![t].data = Payload(d, buffer.type_size)]
             ELSE Ret(t, -EINVAL)
    /\ UNCHANGED <<stack, queue, buffer, raw, lock, lock_expect_false, hist, allocator>>

\* int bufferWrite(buffer, data): valid arguments, size = type_size.
Call_bufferWrite(t, d) ==
    /\ th[t].pc = "idle"
    /\ th' = [th EXCEPT ![t].pc = "wc_load", ![t].res = BUFFER_OK, ![t].op = "write",
                        ![t].from = AtCall,
                        ![t].size = buffer.type_size,
                        ![t].data = Payload(d, buffer.type_size)]
    /\ UNCHANGED <<stack, queue, buffer, raw, lock, lock_expect_false, hist, allocator>>

WriteClaimLabels ==
    {"wc_load", "wc_cas", "wc_store", "wc_full", "wc_nospc", "wc_head", "wc_slot",
     "wc_busy", "wc_adv", "wc_cmph", "wc_cmpt", "wc_setfull", "wc_unlock"}

\* Where the caller of bufferWriteClaim continues with the claimed address:
\* bufferWriteRaw copies, a caller of the split interface fills the slot.
AfterWriteClaim(o) == IF o \in {"write", "qwrite"} THEN "w_copy" ELSE "u_fill"

\* int bufferWriteClaim(buffer, out_addr), one step of thread t.
bufferWriteClaim(t) ==
    LET me == th[t] IN
    /\ me.pc \in WriteClaimLabels
    /\ CASE me.pc = "wc_load" ->
              \* TAKE_WRITE_LOCK reads *expected ...
              /\ th' = [th EXCEPT ![t].exp = lock_expect_false, ![t].pc = "wc_cas"]
              /\ UNCHANGED <<stack, queue, buffer, raw, lock, lock_expect_false, hist, allocator>>
         [] me.pc = "wc_cas" ->
              \* ... compares and exchanges lock->write ...
              /\ IF GateMatches(lock.write, me.exp)
                 THEN /\ lock' = [lock EXCEPT !.write = TRUE]
                      /\ th' = [th EXCEPT ![t].exp = FALSE, ![t].pc = "wc_full"]
                 ELSE /\ th' = Goto(t, "wc_store")
                      /\ UNCHANGED lock
              /\ UNCHANGED <<stack, queue, buffer, raw, lock_expect_false, hist, allocator>>
         [] me.pc = "wc_store" ->
              \* ... and on failure writes the value it found back to *expected.
              /\ lock_expect_false' = ~me.exp
              /\ th' = Ret(t, -EBUSY)
              /\ UNCHANGED <<stack, queue, buffer, raw, lock, hist, allocator>>
         [] me.pc = "wc_full" ->
              /\ th' = Goto(t, IF buffer.full THEN "wc_nospc" ELSE "wc_head")
              /\ UNCHANGED <<stack, queue, buffer, raw, lock, lock_expect_false, hist, allocator>>
         [] me.pc = "wc_nospc" ->
              /\ lock' = CLEAR_WRITE_LOCK(lock)
              /\ th' = Ret(t, -ENOSPC)
              /\ UNCHANGED <<stack, queue, buffer, raw, lock_expect_false, hist, allocator>>
         [] me.pc = "wc_head" ->
              /\ th' = [th EXCEPT ![t].cur = buffer.head, ![t].pc = "wc_slot"]
              /\ UNCHANGED <<stack, queue, buffer, raw, lock, lock_expect_false, hist, allocator>>
         [] me.pc = "wc_slot" ->
              /\ lock' = EXPECT_SLOT_STATE(lock, me.cur, BUFFER_FREE, BUFFER_CLAIMED)
              /\ th' = Goto(t, IF SlotMatches(lock, me.cur, BUFFER_FREE)
                               THEN "wc_adv" ELSE "wc_busy")
              /\ UNCHANGED <<stack, queue, buffer, raw, lock_expect_false, hist, allocator>>
         [] me.pc = "wc_busy" ->
              /\ lock' = CLEAR_WRITE_LOCK(lock)
              /\ th' = Ret(t, -EBUSY)
              /\ UNCHANGED <<stack, queue, buffer, raw, lock_expect_false, hist, allocator>>
         [] me.pc = "wc_adv" ->
              /\ buffer' = [buffer EXCEPT !.head = (me.cur + 1) % buffer.size]
              /\ th' = [th EXCEPT ![t].addr = SlotAddr(buffer, me.cur),
                                  ![t].pc = "wc_cmph"]
              /\ UNCHANGED <<stack, queue, raw, lock, lock_expect_false, hist, allocator>>
         [] me.pc = "wc_cmph" ->
              /\ th' = [th EXCEPT ![t].hd = buffer.head, ![t].pc = "wc_cmpt"]
              /\ UNCHANGED <<stack, queue, buffer, raw, lock, lock_expect_false, hist, allocator>>
         [] me.pc = "wc_cmpt" ->
              /\ th' = [th EXCEPT ![t].hd = 0,
                                  ![t].pc = IF me.hd = buffer.tail
                                            THEN "wc_setfull" ELSE "wc_unlock"]
              /\ UNCHANGED <<stack, queue, buffer, raw, lock, lock_expect_false, hist, allocator>>
         [] me.pc = "wc_setfull" ->
              /\ buffer' = [buffer EXCEPT !.full = TRUE]
              /\ th' = Goto(t, "wc_unlock")
              /\ UNCHANGED <<stack, queue, raw, lock, lock_expect_false, hist, allocator>>
         [] me.pc = "wc_unlock" ->
              /\ lock' = CLEAR_WRITE_LOCK(lock)
              /\ th' = IF me.op = "wclaim" THEN Ret(t, me.cur)
                       ELSE Goto(t, AfterWriteClaim(me.op))
              /\ UNCHANGED <<stack, queue, buffer, raw, lock_expect_false, hist, allocator>>

\* Faulty variant of bufferWriteRaw below: the slot is made Ready while the
\* payload is still being copied.
bufferWriteRaw_ReadyFirst(t) ==
    LET me == th[t] IN
    /\ me.pc \in {"w_copy", "w_ready"}
    /\ CASE me.pc = "w_copy" ->
              /\ raw' = [raw EXCEPT ![me.addr][me.i] = me.data[me.i]]
              /\ lock' = SET_SLOT_STATE(lock, me.cur, BUFFER_READY)
              /\ th' = [th EXCEPT ![t].i = me.i + 1,
                                  ![t].pc = IF me.i + 1 < me.size
                                            THEN "w_copy" ELSE "w_ready"]
              /\ UNCHANGED <<stack, queue, buffer, lock_expect_false, hist, allocator>>
         [] me.pc = "w_ready" ->
              /\ th' = IF me.op = "qwrite" THEN Goto(t, "qw_len") ELSE Ret(t, me.cur)
              /\ hist' = NoteWrite(hist, t, me.cur, me.data[0])
              /\ UNCHANGED <<stack, queue, buffer, raw, lock, lock_expect_false, allocator>>

\* int bufferWriteRaw(buffer, data, size) after its bufferWriteClaim returned
\* the index me.cur: memcpy of size bytes, then SET_SLOT_STATE(READY).
bufferWriteRaw(t) ==
    LET me == th[t] IN
    /\ me.pc \in {"w_copy", "w_ready"}
    /\ CASE me.pc = "w_copy" ->
              /\ raw' = [raw EXCEPT ![me.addr][me.i] = me.data[me.i]]
              /\ th' = [th EXCEPT ![t].i = me.i + 1,
                                  ![t].pc = IF me.i + 1 < me.size
                                            THEN "w_copy" ELSE "w_ready"]
              /\ UNCHANGED <<stack, queue, buffer, lock, lock_expect_false, hist, allocator>>
         [] me.pc = "w_ready" ->
              /\ lock' = SET_SLOT_STATE(lock, me.cur, BUFFER_READY)
              /\ th' = IF me.op = "qwrite" THEN Goto(t, "qw_len") ELSE Ret(t, me.cur)
              /\ hist' = [NoteWrite(hist, t, me.cur, me.data[0])
                             EXCEPT !.len[me.cur] = me.size]
              /\ UNCHANGED <<stack, queue, buffer, raw, lock_expect_false, allocator>>

\* int bufferWriteClaim(buffer, out_addr) called directly: the caller will put
\* the element d at the returned address itself and then release the slot.
Call_bufferWriteClaim(t, d) ==
    /\ th[t].pc = "idle"
    /\ th' = [th EXCEPT ![t].pc = "wc_load", ![t].res = BUFFER_OK, ![t].op = "wsplit",
                        ![t].from = AtCall,
                        ![t].size = buffer.type_size,
                        ![t].data = Payload(d, buffer.type_size)]
    /\ UNCHANGED <<stack, queue, buffer, raw, lock, lock_expect_false, hist, allocator>>

\* int bufferWriteClaim(buffer, out_addr) called on its own: what the caller
\* does with the slot afterwards are calls of their own.
Call_bufferWriteClaimOnly(t) ==
    /\ th[t].pc = "idle"
    /\ th' = [th EXCEPT ![t].pc = "wc_load", ![t].res = BUFFER_OK, ![t].op = "wclaim",
                        ![t].from = AtCall]
    /\ UNCHANGED <<stack, queue, buffer, raw, lock, lock_expect_false, hist, allocator>>

\* The caller of bufferWriteClaim fills the slot at the address it was given
\* and calls bufferWriteRelease with the index it was given.
CallerFill(t) ==
    LET me == th[t] IN
    /\ me.pc = "u_fill"
    /\ raw' = [raw EXCEPT ![me.addr] = me.data]
    /\ th' = Goto(t, "wr_cas")
    /\ UNCHANGED <<stack, queue, buffer, lock, lock_expect_false, hist, allocator>>

\* int bufferWriteRelease(buffer, index) called with any index.
Call_bufferWriteRelease(t, index) ==
    /\ th[t].pc = "idle"
    /\ th' = [th EXCEPT ![t].pc = "wr_cas", ![t].res = BUFFER_OK, ![t].op = "wrel", ![t].cur = index,
                        ![t].from = AtCall]
    /\ UNCHANGED <<stack, queue, buffer, raw, lock, lock_expect_false, hist, allocator>>

\* A faulty bufferWriteRelease that hands the slot back as BUFFER_FREE
\* instead of publishing it:
bufferWriteRelease_ToFree(t) ==
    LET me == th[t]
        ok == SlotMatches(lock, me.cur, BUFFER_CLAIMED)
    IN
    /\ me.pc = "wr_cas"
    /\ lock' = EXPECT_SLOT_STATE(lock, me.cur, BUFFER_CLAIMED, BUFFER_FREE)
    /\ th' = Ret(t, IF ok THEN BUFFER_OK ELSE -EPERM)
    /\ UNCHANGED <<stack, queue, buffer, raw, lock_expect_false, hist, allocator>>

\* int bufferWriteRelease(buffer, index): one compare-and-set.  The index is
\* not compared with buffer->size: with index >= size the compare-and-set
\* acts on the byte at slot_state + index, past the end of the array, and
\* succeeds or fails with whatever that byte holds.
bufferWriteRelease(t) ==
    LET me == th[t]
        ok == SlotMatches(lock, me.cur, BUFFER_CLAIMED)
    IN
    /\ me.pc = "wr_cas"
    /\ IF me.cur \in Slots
       THEN /\ lock' = EXPECT_SLOT_STATE(lock, me.cur, BUFFER_CLAIMED, BUFFER_READY)
            /\ th' = Ret(t, IF ok THEN BUFFER_OK ELSE -EPERM)
            /\ hist' = IF ok /\ me.op = "wsplit"
                       THEN [NoteWrite(hist, t, me.cur, me.data[0])
                             EXCEPT !.len[me.cur] = me.size]
                       ELSE IF ok /\ me.op = "qwrel"
                       THEN [hist EXCEPT !.len[me.cur] = Min(me.size, queue.slot_len)]
                       ELSE hist
       ELSE /\ \E found \in BOOLEAN :
                  th' = Ret(t, IF found THEN BUFFER_OK ELSE -EPERM)
            /\ UNCHANGED <<lock, hist>>
    /\ UNCHANGED <<stack, queue, buffer, raw, lock_expect_false, allocator>>

\* int bufferReadRaw(buffer, data, size) with any arguments: data points to
\* an output location of type_size bytes not yet written.
Call_bufferReadRaw(t, buf, dat, size) ==
    /\ th[t].pc = "idle"
    /\ th' = IF ArgsValid(buf, dat, size)
             THEN [th EXCEPT ![t].pc = "rc_load", ![t].res = BUFFER_OK,
                             ![t].op = "read", ![t].size = size,
                             ![t].data = Blank(buffer.type_size)]
             ELSE Ret(t, -EINVAL)
    /\ UNCHANGED <<stack, queue, buffer, raw, lock, lock_expect_false, hist, allocator>>

\* int bufferRead(buffer, data): valid arguments, size = type_size.
Call_bufferRead(t) ==
    /\ th[t].pc = "idle"
    /\ th' = [th EXCEPT ![t].pc = "rc_load", ![t].res = BUFFER_OK, ![t].op = "read",
                        ![t].from = AtCall,
                        ![t].size = buffer.type_size,
                        ![t].data = Blank(buffer.type_size)]
    /\ UNCHANGED <<stack, queue, buffer, raw, lock, lock_expect_false, hist, allocator>>

ReadClaimLabels ==
    {"rc_load", "rc_cas", "rc_store", "rc_efull", "rc_ehead", "rc_etail", "rc_again",
     "rc_tail", "rc_slot", "rc_busy", "rc_cmph", "rc_cmpt", "rc_clrfull", "rc_adv",
     "rc_unlock"}

\* Where a caller of bufferReadClaim continues with the claimed address.
AfterReadClaim(o) == IF o \in {"read", "qread"} THEN "r_copy" ELSE "u_drain"

\* int bufferReadClaim(buffer, out_addr), one step of thread t.
bufferReadClaim(t) ==
    LET me == th[t] IN
    /\ me.pc \in ReadClaimLabels
    /\ CASE me.pc = "rc_load" ->
              /\ th' = [th EXCEPT ![t].exp = lock_expect_false, ![t].pc = "rc_cas"]
              /\ UNCHANGED <<stack, queue, buffer, raw, lock, lock_expect_false, hist, allocator>>
         [] me.pc = "rc_cas" ->
              /\ IF GateMatches(lock.read, me.exp)
                 THEN /\ lock' = [lock EXCEPT !.read = TRUE]
                      /\ th' = [th EXCEPT ![t].exp = FALSE, ![t].pc = "rc_efull"]
                 ELSE /\ th' = Goto(t, "rc_store")
                      /\ UNCHANGED lock
              /\ UNCHANGED <<stack, queue, buffer, raw, lock_expect_false, hist, allocator>>
         [] me.pc = "rc_store" ->
              /\ lock_expect_false' = ~me.exp
              /\ th' = Ret(t, -EBUSY)
              /\ UNCHANGED <<stack, queue, buffer, raw, lock, hist, allocator>>
         [] me.pc = "rc_efull" ->
              \* bufferIsEmpty: !buffer->full && ...
              /\ th' = Goto(t, IF buffer.full THEN "rc_tail" ELSE "rc_ehead")
              /\ UNCHANGED <<stack, queue, buffer, raw, lock, lock_expect_false, hist, allocator>>
         [] me.pc = "rc_ehead" ->
              \* ... buffer->head == buffer->tail
              /\ th' = [th EXCEPT ![t].hd = buffer.head, ![t].pc = "rc_etail"]
              /\ UNCHANGED <<stack, queue, buffer, raw, lock, lock_expect_false, hist, allocator>>
         [] me.pc = "rc_etail" ->
              /\ th' = [th EXCEPT ![t].hd = 0,
                                  ![t].pc = IF me.hd = buffer.tail
                                            THEN "rc_again" ELSE "rc_tail"]
              /\ UNCHANGED <<stack, queue, buffer, raw, lock, lock_expect_false, hist, allocator>>
         [] me.pc = "rc_again" ->
              /\ lock' = CLEAR_READ_LOCK(lock)
              /\ th' = Ret(t, -EAGAIN)
              /\ UNCHANGED <<stack, queue, buffer, raw, lock_expect_false, hist, allocator>>
         [] me.pc = "rc_tail" ->
              /\ th' = [th EXCEPT ![t].cur = buffer.tail, ![t].pc = "rc_slot"]
              /\ UNCHANGED <<stack, queue, buffer, raw, lock, lock_expect_false, hist, allocator>>
         [] me.pc = "rc_slot" ->
              /\ lock' = EXPECT_SLOT_STATE(lock, me.cur, BUFFER_READY, BUFFER_READING)
              /\ th' = Goto(t, IF SlotMatches(lock, me.cur, BUFFER_READY)
                               THEN "rc_cmph" ELSE "rc_busy")
              /\ UNCHANGED <<stack, queue, buffer, raw, lock_expect_false, hist, allocator>>
         [] me.pc = "rc_busy" ->
              /\ lock' = CLEAR_READ_LOCK(lock)
              /\ th' = Ret(t, -EBUSY)
              /\ UNCHANGED <<stack, queue, buffer, raw, lock_expect_false, hist, allocator>>
         [] me.pc = "rc_cmph" ->
              \* *out_addr = ...; if (buffer->head == buffer->tail) ...
              /\ th' = [th EXCEPT ![t].addr = SlotAddr(buffer, me.cur),
                                  ![t].hd = buffer.head, ![t].pc = "rc_cmpt"]
              /\ UNCHANGED <<stack, queue, buffer, raw, lock, lock_expect_false, hist, allocator>>
         [] me.pc = "rc_cmpt" ->
              /\ th' = [th EXCEPT ![t].hd = 0,
                                  ![t].pc = IF me.hd = buffer.tail
                                            THEN "rc_clrfull" ELSE "rc_adv"]
              /\ UNCHANGED <<stack, queue, buffer, raw, lock, lock_expect_false, hist, allocator>>
         [] me.pc = "rc_clrfull" ->
              \* ... buffer->full = false
              /\ buffer' = [buffer EXCEPT !.full = FALSE]
              /\ th' = Goto(t, "rc_adv")
              /\ UNCHANGED <<stack, queue, raw, lock, lock_expect_false, hist, allocator>>
         [] me.pc = "rc_adv" ->
              /\ buffer' = [buffer EXCEPT !.tail = (me.cur + 1) % buffer.size]
              /\ th' = Goto(t, "rc_unlock")
              /\ UNCHANGED <<stack, queue, raw, lock, lock_expect_false, hist, allocator>>
         [] me.pc = "rc_unlock" ->
              /\ lock' = CLEAR_READ_LOCK(lock)
              /\ th' = IF me.op = "rclaim" THEN Ret(t, me.cur)
                       ELSE Goto(t, AfterReadClaim(me.op))
              /\ UNCHANGED <<stack, queue, buffer, raw, lock_expect_false, hist, allocator>>

\* Faulty variant of bufferReadRaw below: the whole element is copied out,
\* whatever size the caller asked for.
bufferReadRaw_WholeElement(t) ==
    LET me == th[t] IN
    /\ me.pc \in {"r_copy", "r_free"}
    /\ CASE me.pc = "r_copy" ->
              /\ \E b \in Visible(t, me.addr, me.i) :
                    th' = [th EXCEPT ![t].data[me.i] = b,
                                     ![t].i = me.i + 1,
                                     ![t].pc = IF me.i + 1 < buffer.type_size
                                               THEN "r_copy" ELSE "r_free"]
              /\ UNCHANGED <<stack, queue, buffer, raw, lock, lock_expect_false, hist, allocator>>
         [] me.pc = "r_free" ->
              /\ lock' = SET_SLOT_STATE(lock, me.cur, BUFFER_FREE)
              /\ th' = IF me.op = "qread" THEN Goto(t, "qr_len") ELSE Ret(t, me.cur)
              /\ hist' = NoteRead(hist, me.cur)
              /\ UNCHANGED <<stack, queue, buffer, raw, lock_expect_false, allocator>>

\* int bufferReadRaw(buffer, data, size) after its bufferReadClaim returned the
\* index me.cur: memcpy of size bytes, then SET_SLOT_STATE(FREE).
bufferReadRaw(t) ==
    LET me == th[t] IN
    /\ me.pc \in {"r_copy", "r_free"}
    /\ CASE me.pc = "r_copy" ->
              /\ \E b \in Visible(t, me.addr, me.i) :
                    th' = [th EXCEPT ![t].data[me.i] = b,
                                     ![t].i = me.i + 1,
                                     ![t].pc = IF me.i + 1 < me.size
                                               THEN "r_copy" ELSE "r_free"]
              /\ UNCHANGED <<stack, queue, buffer, raw, lock, lock_expect_false, hist, allocator>>
         [] me.pc = "r_free" ->
              /\ lock' = SET_SLOT_STATE(lock, me.cur, BUFFER_FREE)
              /\ th' = IF me.op = "qread" THEN Goto(t, "qr_len") ELSE Ret(t, me.cur)
              /\ hist' = [NoteRead(hist, me.cur)
                             EXCEPT !.got = IF me.op = "qread"
                                            THEN hist.len[me.cur] ELSE 0]
              /\ UNCHANGED <<stack, queue, buffer, raw, lock_expect_false, allocator>>

\* int bufferReadClaim(buffer, out_addr) called directly: the caller will take
\* the element from the returned address itself and then release the slot.
Call_bufferReadClaim(t) ==
    /\ th[t].pc = "idle"
    /\ th' = [th EXCEPT ![t].pc = "rc_load", ![t].res = BUFFER_OK, ![t].op = "rsplit",
                        ![t].from = AtCall,
                        ![t].size = buffer.type_size,
                        ![t].data = Blank(buffer.type_size)]
    /\ UNCHANGED <<stack, queue, buffer, raw, lock, lock_expect_false, hist, allocator>>

\* int bufferReadClaim(buffer, out_addr) called on its own.
Call_bufferReadClaimOnly(t) ==
    /\ th[t].pc = "idle"
    /\ th' = [th EXCEPT ![t].pc = "rc_load", ![t].res = BUFFER_OK, ![t].op = "rclaim"]
    /\ UNCHANGED <<stack, queue, buffer, raw, lock, lock_expect_false, hist, allocator>>

\* The caller of bufferReadClaim takes the element from the address it was
\* given and calls bufferReadRelease with the index it was given.
CallerDrain(t) ==
    LET me == th[t] IN
    /\ me.pc = "u_drain"
    /\ \E d \in [0..(me.size - 1) -> 0..MaxData] :
          /\ \A i \in 0..(me.size - 1) : d[i] \in Visible(t, me.addr, i)
          /\ th' = [th EXCEPT ![t].data = d, ![t].pc = "rr_cas"]
    /\ UNCHANGED <<stack, queue, buffer, raw, lock, lock_expect_false, hist, allocator>>

\* int bufferReadRelease(buffer, index) called with any index.
Call_bufferReadRelease(t, index) ==
    /\ th[t].pc = "idle"
    /\ th' = [th EXCEPT ![t].pc = "rr_cas", ![t].res = BUFFER_OK, ![t].op = "rrel", ![t].cur = index,
                        ![t].from = AtCall]
    /\ UNCHANGED <<stack, queue, buffer, raw, lock, lock_expect_false, hist, allocator>>

\* int bufferReadRelease(buffer, index): one compare-and-set, on the byte
\* past the end of slot_state when index >= size.
bufferReadRelease(t) ==
    LET me == th[t]
        ok == SlotMatches(lock, me.cur, BUFFER_READING)
    IN
    /\ me.pc = "rr_cas"
    /\ IF me.cur \in Slots
       THEN /\ lock' = EXPECT_SLOT_STATE(lock, me.cur, BUFFER_READING, BUFFER_FREE)
            /\ th' = Ret(t, IF ok THEN BUFFER_OK ELSE -EPERM)
            /\ hist' = IF ok /\ me.op = "rsplit" THEN NoteRead(hist, me.cur) ELSE hist
       ELSE /\ \E found \in BOOLEAN :
                  th' = Ret(t, IF found THEN BUFFER_OK ELSE -EPERM)
            /\ UNCHANGED <<lock, hist>>
    /\ UNCHANGED <<stack, queue, buffer, raw, lock_expect_false, allocator>>

\* void bufferClear(buffer): buf says whether the pointer is non-null.
Call_bufferClear(t, buf) ==
    /\ th[t].pc = "idle"
    /\ th' = IF buf THEN [th EXCEPT ![t].pc = "cl_head", ![t].op = "clear",
                                    ![t].from = AtCall]
             ELSE th
    /\ hist' = IF buf THEN NoteClearCall(hist, buffer) ELSE hist
    /\ UNCHANGED <<stack, queue, buffer, raw, lock, lock_expect_false, allocator>>

\* Faulty variant of bufferClear below: tail is not reset.
bufferClear_KeepTail(t) ==
    LET me == th[t] IN
    /\ me.pc \in {"cl_head", "cl_tail", "cl_full"}
    /\ CASE me.pc = "cl_head" ->
              /\ buffer' = [buffer EXCEPT !.head = 0]
              /\ th' = Goto(t, "cl_tail")
              /\ UNCHANGED <<stack, queue, raw, lock, lock_expect_false, hist, allocator>>
         [] me.pc = "cl_tail" ->
              /\ th' = Goto(t, "cl_full")
              /\ UNCHANGED <<stack, queue, buffer, raw, lock, lock_expect_false, hist, allocator>>
         [] me.pc = "cl_full" ->
              /\ buffer' = [buffer EXCEPT !.full = FALSE]
              /\ th' = Ret(t, me.res)
              /\ hist' = NoteClear(hist)
              /\ UNCHANGED <<stack, queue, raw, lock, lock_expect_false, allocator>>

\* void bufferClear(buffer), one step of thread t: three plain stores, the
\* value the caller's last call returned stays what it was.
bufferClear(t) ==
    LET me == th[t] IN
    /\ me.pc \in {"cl_head", "cl_tail", "cl_full"}
    /\ CASE me.pc = "cl_head" ->
              /\ buffer' = [buffer EXCEPT !.head = 0]
              /\ th' = Goto(t, "cl_tail")
              /\ UNCHANGED <<stack, queue, raw, lock, lock_expect_false, hist, allocator>>
         [] me.pc = "cl_tail" ->
              /\ buffer' = [buffer EXCEPT !.tail = 0]
              /\ th' = Goto(t, "cl_full")
              /\ UNCHANGED <<stack, queue, raw, lock, lock_expect_false, hist, allocator>>
         [] me.pc = "cl_full" ->
              /\ buffer' = [buffer EXCEPT !.full = FALSE]
              /\ th' = Ret(t, me.res)
              /\ hist' = NoteClear(hist)
              /\ UNCHANGED <<stack, queue, raw, lock, lock_expect_false, allocator>>

(* ------------------------------ queue.c ------------------------------- *)

\* A caller's output location of n bytes holding what it held before the
\* call: bytes that are neither a payload value nor the '\0' queueRead pads
\* with.
Untouched(n) == [i \in 0..(n - 1) |-> MaxData + 1]

\* The caller's message of len bytes made from value d: neighbouring bytes
\* differ when MaxData > 1.
Message(d, len) == [i \in 0..(len - 1) |-> ((d + i - 1) % MaxData) + 1]

\* int queueWrite(queue, data, len): q and dat say whether the pointers are
\* non-null, data points to Message(d, len).  len is clamped to slot_len and
\* bufferWriteRaw is called.
Call_queueWrite(t, q, dat, d, len) ==
    /\ th[t].pc = "idle"
    /\ th' = IF q /\ dat /\ len # 0
             THEN [th EXCEPT ![t].pc = "wc_load", ![t].res = BUFFER_OK,
                             ![t].op = "qwrite",
                             ![t].size = Min(len, queue.slot_len),
                             ![t].data = Message(d, len), ![t].from = AtCall]
             ELSE Ret(t, -EINVAL)
    /\ UNCHANGED <<buffer, raw, lock, lock_expect_false, stack, queue, hist, allocator>>

\* Faulty variant of queueWrite below: the length is returned but not
\* recorded.
queueWrite_NoLen(t) ==
    LET me == th[t] IN
    /\ me.pc = "qw_len"
    /\ th' = Ret(t, me.size)
    /\ UNCHANGED <<buffer, raw, lock, lock_expect_false, stack, queue, hist, allocator>>

\* queueWrite after bufferWriteRaw returned the index me.cur:
\* queue->msg_len[res] = len; return len.
queueWrite(t) ==
    LET me == th[t] IN
    /\ me.pc = "qw_len"
    /\ queue' = [queue EXCEPT !.msg_len[me.cur] = me.size]
    /\ th' = Ret(t, me.size)
    /\ UNCHANGED <<buffer, raw, lock, lock_expect_false, stack, hist, allocator>>

\* Faulty variant of Call_queueRead below: the whole slot is copied out
\* whatever the caller's maximum length.
Call_queueRead_WholeSlot(t, q, dat, len) ==
    /\ th[t].pc = "idle"
    /\ th' = IF q /\ dat /\ len # 0
             THEN [th EXCEPT ![t].pc = "rc_load", ![t].res = BUFFER_OK,
                             ![t].op = "qread",
                             ![t].size = queue.slot_len,
                             ![t].data = Untouched(len + 1), ![t].from = AtCall]
             ELSE Ret(t, -EINVAL)
    /\ UNCHANGED <<buffer, raw, lock, lock_expect_false, stack, queue, hist, allocator>>

\* int queueRead(queue, data, len): data points to len bytes of the caller,
\* which are followed in memory by a byte the call has no right to write.
Call_queueRead(t, q, dat, len) ==
    /\ th[t].pc = "idle"
    /\ th' = IF q /\ dat /\ len # 0
             THEN [th EXCEPT ![t].pc = "rc_load", ![t].res = BUFFER_OK,
                             ![t].op = "qread",
                             ![t].size = Min(len, queue.slot_len),
                             ![t].data = Untouched(len + 1), ![t].from = AtCall]
             ELSE Ret(t, -EINVAL)
    /\ UNCHANGED <<buffer, raw, lock, lock_expect_false, stack, queue, hist, allocator>>

\* queueRead after bufferReadRaw returned the index me.cur: load of
\* msg_len[res], padding of data[msg_len .. len) with '\0', msg_len[res] = 0.
queueRead(t) ==
    LET me == th[t] IN
    /\ me.pc \in {"qr_len", "qr_pad", "qr_clr"}
    /\ CASE me.pc = "qr_len" ->
              /\ th' = [th EXCEPT ![t].hd = Min(me.size, queue.msg_len[me.cur]),
                                  ![t].pc = "qr_pad"]
              /\ UNCHANGED <<buffer, raw, lock, lock_expect_false, stack, queue, hist, allocator>>
         [] me.pc = "qr_pad" ->
              /\ th' = [th EXCEPT ![t].data =
                                     [i \in DOMAIN me.data |->
                                         IF me.hd <= i /\ i < me.size
                                         THEN 0 ELSE me.data[i]],
                                  ![t].pc = "qr_clr"]
              /\ UNCHANGED <<buffer, raw, lock, lock_expect_false, stack, queue, hist, allocator>>
         [] me.pc = "qr_clr" ->
              /\ queue' = [queue EXCEPT !.msg_len[me.cur] = 0]
              /\ th' = Ret(t, me.hd)
              /\ hist' = [hist EXCEPT !.got = 0]
              /\ UNCHANGED <<buffer, raw, lock, lock_expect_false, stack, allocator>>

\* int queueWriteRelease(queue, index, len): queue->msg_len[index] = len, then
\* bufferWriteRelease(queue->slot_buffer, index).
Call_queueWriteRelease(t, index, len) ==
    /\ th[t].pc = "idle"
    /\ th' = [th EXCEPT ![t].pc = "qwr_len", ![t].res = BUFFER_OK, ![t].op = "qwrel",
                        ![t].cur = index, ![t].size = len, ![t].from = AtCall]
    /\ UNCHANGED <<buffer, raw, lock, lock_expect_false, stack, queue, hist, allocator>>

\* With index >= size the store lands past the end of msg_len and no entry
\* of the table changes.
queueWriteRelease(t) ==
    LET me == th[t] IN
    /\ me.pc = "qwr_len"
    /\ queue' = IF me.cur \in Slots
                THEN [queue EXCEPT !.msg_len[me.cur] = me.size]
                ELSE queue
    /\ th' = Goto(t, "wr_cas")
    /\ UNCHANGED <<buffer, raw, lock, lock_expect_false, stack, hist, allocator>>

\* void queueClear(queue): q says whether the pointer is non-null.  The loop
\* zeroes msg_len, then bufferClear(queue->slot_buffer).
Call_queueClear(t, q) ==
    /\ th[t].pc = "idle"
    /\ th' = IF q THEN [th EXCEPT ![t].pc = "qc_loop", ![t].op = "qclear", ![t].i = 0]
             ELSE th
    /\ UNCHANGED <<buffer, raw, lock, lock_expect_false, stack, queue, hist, allocator>>

queueClear(t) ==
    LET me == th[t] IN
    /\ me.pc = "qc_loop"
    /\ IF me.i < buffer.size
       THEN /\ queue' = [queue EXCEPT !.msg_len[me.i] = 0]
            /\ th' = [th EXCEPT ![t].i = me.i + 1]
       ELSE /\ th' = [th EXCEPT ![t].i = 0, ![t].pc = "cl_head"]
            /\ UNCHANGED queue
    /\ UNCHANGED <<buffer, raw, lock, lock_expect_false, stack, hist, allocator>>

(* ------------------------------ stack.c ------------------------------- *)

\* uint16_t arithmetic on stack->top.
Wrap(n) == n % (2 ^ IndexBits)

StackSlots == 0..(stack.size - 1)

\* The observer's record of the payload last committed to a slot of the
\* stack and of the thread that stored it, as NoteWrite and NoteRead keep it
\* for the buffer.
\* When it records the order of the calls, fifo is the sequence of the
\* payloads pushed and not yet popped, oldest first, occ the number of
\* pushes that succeeded minus the number of pops that succeeded, and nw and
\* widx the number of pushes that succeeded since the last successful pop
\* and the set of the indices they returned.
NotePush(h0, t, index, d) ==
    LET h == [h0 EXCEPT !.old[index] = h0.commit[index],
                        !.by[index] = IF h0.commit[index] = d THEN 0 ELSE t,
                        !.commit[index] = d]
    IN
    IF h.order
    THEN [h EXCEPT !.occ = Min(h.occ + 1, stack.size + 1),
                   !.nw = Min(h.nw + 1, stack.size + 1),
                   !.widx = h.widx \cup {index},
                   !.fifo = IF Len(h.fifo) <= stack.size
                            THEN Append(h.fifo, d) ELSE h.fifo,
                   !.clr = AfterClearWrite(h, stack.size)]
    ELSE h

NotePop(h0, index) ==
    LET h == [h0 EXCEPT !.old[index] = h0.commit[index], !.by[index] = 0]
    IN
    IF h.order
    THEN [h EXCEPT !.occ = IF h.occ > -1 THEN h.occ - 1 ELSE h.occ,
                   !.nw = 0,
                   !.widx = {},
                   !.fifo = IF h.fifo = <<>> THEN h.fifo
                            ELSE SubSeq(h.fifo, 1, Len(h.fifo) - 1),
                   !.clr = AfterClearRead(h, stack.size)]
    ELSE h

\* The values thread t can get when it reads byte i of slot s of the stack.
\* An index outside the storage reads whatever memory lies there.
StackVisible(t, s, i) ==
    IF s \in StackSlots
    THEN {stack.raw[s][i]} \cup (IF hist.by[s] \notin {0, t} THEN {hist.old[s]} ELSE {})
    ELSE 0..MaxData

\* int stackPush(stack, data): stk and dat say whether the pointers are
\* non-null.
Call_stackPush(t, stk, dat, d) ==
    /\ th[t].pc = "idle"
    /\ th' = IF stk /\ dat
             THEN [th EXCEPT ![t].pc = "sp_load", ![t].res = BUFFER_OK, ![t].op = "push",
                             ![t].size = stack.type_size,
                             ![t].data = Payload(d, stack.type_size),
                             ![t].from = AtCall]
             ELSE Ret(t, -EINVAL)
    /\ UNCHANGED <<buffer, raw, lock, lock_expect_false, stack, queue, hist, allocator>>

\* Faulty variant of stackPush below: a successful push returns STACK_OK
\* instead of the index.
stackPush_ReturnsOK(t) ==
    LET me == th[t] IN
    /\ me.pc \in {"sp_load", "sp_cas", "sp_store", "sp_full", "sp_nospc", "sp_top",
                  "sp_slot", "sp_busy", "sp_addr", "sp_inc", "sp_unlock", "sp_copy",
                  "sp_ready"}
    /\ CASE me.pc = "sp_load" ->
              /\ th' = [th EXCEPT ![t].exp = stack.lock_expect_false, ![t].pc = "sp_cas"]
              /\ UNCHANGED stack
         [] me.pc = "sp_cas" ->
              IF GateMatches(stack.lock.write, me.exp)
              THEN /\ stack' = [stack EXCEPT !.lock.write = TRUE]
                   /\ th' = [th EXCEPT ![t].exp = FALSE, ![t].pc = "sp_full"]
              ELSE /\ th' = Goto(t, "sp_store")
                   /\ UNCHANGED stack
         [] me.pc = "sp_store" ->
              /\ stack' = [stack EXCEPT !.lock_expect_false = ~me.exp]
              /\ th' = Ret(t, -EBUSY)
         [] me.pc = "sp_full" ->
              /\ th' = Goto(t, IF stack.top = stack.size THEN "sp_nospc" ELSE "sp_top")
              /\ UNCHANGED stack
         [] me.pc = "sp_nospc" ->
              /\ stack' = [stack EXCEPT !.lock = CLEAR_WRITE_LOCK(stack.lock)]
              /\ th' = Ret(t, -ENOSPC)
         [] me.pc = "sp_top" ->
              /\ th' = [th EXCEPT ![t].cur = stack.top, ![t].pc = "sp_slot"]
              /\ UNCHANGED stack
         [] me.pc = "sp_slot" ->
              IF me.cur \in StackSlots
              THEN /\ stack' = [stack EXCEPT !.lock = EXPECT_SLOT_STATE(
                                     stack.lock, me.cur, BUFFER_FREE, BUFFER_CLAIMED)]
                   /\ th' = Goto(t, IF SlotMatches(stack.lock, me.cur, BUFFER_FREE)
                                    THEN "sp_addr" ELSE "sp_busy")
              ELSE /\ \E ok \in BOOLEAN : th' = Goto(t, IF ok THEN "sp_addr" ELSE "sp_busy")
                   /\ UNCHANGED stack
         [] me.pc = "sp_busy" ->
              /\ stack' = [stack EXCEPT !.lock = CLEAR_WRITE_LOCK(stack.lock)]
              /\ th' = Ret(t, -EBUSY)
         [] me.pc = "sp_addr" ->
              \* head_addr = raw + stack->top * type_size; the load of stack->top += 1
              /\ th' = [th EXCEPT ![t].addr = stack.top, ![t].hd = stack.top,
                                  ![t].pc = "sp_inc"]
              /\ UNCHANGED stack
         [] me.pc = "sp_inc" ->
              /\ stack' = [stack EXCEPT !.top = Wrap(me.hd + 1)]
              /\ th' = [th EXCEPT ![t].hd = 0, ![t].pc = "sp_unlock"]
         [] me.pc = "sp_unlock" ->
              /\ stack' = [stack EXCEPT !.lock = CLEAR_WRITE_LOCK(stack.lock)]
              /\ th' = [th EXCEPT ![t].i = 0, ![t].pc = "sp_copy"]
         [] me.pc = "sp_copy" ->
              /\ stack' = IF me.addr \in StackSlots
                          THEN [stack EXCEPT !.raw[me.addr][me.i] = me.data[me.i]]
                          ELSE stack
              /\ th' = [th EXCEPT ![t].i = me.i + 1,
                                  ![t].pc = IF me.i + 1 < me.size
                                            THEN "sp_copy" ELSE "sp_ready"]
         [] me.pc = "sp_ready" ->
              /\ stack' = IF me.cur \in StackSlots
                          THEN [stack EXCEPT !.lock = SET_SLOT_STATE(
                                    stack.lock, me.cur, BUFFER_READY)]
                          ELSE stack
              /\ th' = Ret(t, BUFFER_OK)
    /\ hist' = IF me.pc = "sp_ready" /\ me.addr \in StackSlots
               THEN NotePush(hist, t, me.addr, me.data[0])
               ELSE hist
    /\ UNCHANGED <<buffer, raw, lock, lock_expect_false, queue, allocator>>

\* One step of thread t inside stackPush.  A slot index outside the storage
\* (top moved by another thread inside the gate) makes the compare-and-set
\* act on memory outside slot_state: it may succeed or fail.
stackPush(t) ==
    LET me == th[t] IN
    /\ me.pc \in {"sp_load", "sp_cas", "sp_store", "sp_full", "sp_nospc", "sp_top",
                  "sp_slot", "sp_busy", "sp_addr", "sp_inc", "sp_unlock", "sp_copy",
                  "sp_ready"}
    /\ CASE me.pc = "sp_load" ->
              /\ th' = [th EXCEPT ![t].exp = stack.lock_expect_false, ![t].pc = "sp_cas"]
              /\ UNCHANGED stack
         [] me.pc = "sp_cas" ->
              IF GateMatches(stack.lock.write, me.exp)
              THEN /\ stack' = [stack EXCEPT !.lock.write = TRUE]
                   /\ th' = [th EXCEPT ![t].exp = FALSE, ![t].pc = "sp_full"]
              ELSE /\ th' = Goto(t, "sp_store")
                   /\ UNCHANGED stack
         [] me.pc = "sp_store" ->
              /\ stack' = [stack EXCEPT !.lock_expect_false = ~me.exp]
              /\ th' = Ret(t, -EBUSY)
         [] me.pc = "sp_full" ->
              /\ th' = Goto(t, IF stack.top = stack.size THEN "sp_nospc" ELSE "sp_top")
              /\ UNCHANGED stack
         [] me.pc = "sp_nospc" ->
              /\ stack' = [stack EXCEPT !.lock = CLEAR_WRITE_LOCK(stack.lock)]
              /\ th' = Ret(t, -ENOSPC)
         [] me.pc = "sp_top" ->
              /\ th' = [th EXCEPT ![t].cur = stack.top, ![t].pc = "sp_slot"]
              /\ UNCHANGED stack
         [] me.pc = "sp_slot" ->
              IF me.cur \in StackSlots
              THEN /\ stack' = [stack EXCEPT !.lock = EXPECT_SLOT_STATE(
                                     stack.lock, me.cur, BUFFER_FREE, BUFFER_CLAIMED)]
                   /\ th' = Goto(t, IF SlotMatches(stack.lock, me.cur, BUFFER_FREE)
                                    THEN "sp_addr" ELSE "sp_busy")
              ELSE /\ \E ok \in BOOLEAN : th' = Goto(t, IF ok THEN "sp_addr" ELSE "sp_busy")
                   /\ UNCHANGED stack
         [] me.pc = "sp_busy" ->
              /\ stack' = [stack EXCEPT !.lock = CLEAR_WRITE_LOCK(stack.lock)]
              /\ th' = Ret(t, -EBUSY)
         [] me.pc = "sp_addr" ->
              \* head_addr = raw + stack->top * type_size; the load of stack->top += 1
              /\ th' = [th EXCEPT ![t].addr = stack.top, ![t].hd = stack.top,
                                  ![t].pc = "sp_inc"]
              /\ UNCHANGED stack
         [] me.pc = "sp_inc" ->
              /\ stack' = [stack EXCEPT !.top = Wrap(me.hd + 1)]
              /\ th' = [th EXCEPT ![t].hd = 0, ![t].pc = "sp_unlock"]
         [] me.pc = "sp_unlock" ->
              /\ stack' = [stack EXCEPT !.lock = CLEAR_WRITE_LOCK(stack.lock)]
              /\ th' = [th EXCEPT ![t].i = 0, ![t].pc = "sp_copy"]
         [] me.pc = "sp_copy" ->
              /\ stack' = IF me.addr \in StackSlots
                          THEN [stack EXCEPT !.raw[me.addr][me.i] = me.data[me.i]]
                          ELSE stack
              /\ th' = [th EXCEPT ![t].i = me.i + 1,
                                  ![t].pc = IF me.i + 1 < me.size
                                            THEN "sp_copy" ELSE "sp_ready"]
         [] me.pc = "sp_ready" ->
              /\ stack' = IF me.cur \in StackSlots
                          THEN [stack EXCEPT !.lock = SET_SLOT_STATE(
                                    stack.lock, me.cur, BUFFER_READY)]
                          ELSE stack
              /\ th' = Ret(t, me.cur)
    /\ hist' = IF me.pc = "sp_ready" /\ me.addr \in StackSlots
               THEN NotePush(hist, t, me.addr, me.data[0])
               ELSE hist
    /\ UNCHANGED <<buffer, raw, lock, lock_expect_false, queue, allocator>>

\* int stackPop(stack, data): data points to an output location of
\* type_size bytes.
Call_stackPop(t, stk, dat) ==
    /\ th[t].pc = "idle"
    /\ th' = IF stk /\ dat
             THEN [th EXCEPT ![t].pc = "pp_load", ![t].res = BUFFER_OK, ![t].op = "pop",
                             ![t].size = stack.type_size,
                             ![t].data = Untouched(stack.type_size),
                             ![t].from = AtCall]
             ELSE Ret(t, -EINVAL)
    /\ UNCHANGED <<buffer, raw, lock, lock_expect_false, stack, queue, hist, allocator>>

\* Faulty variant of stackPop below: the element is copied from the bottom
\* of the stack.
stackPop_FromBottom(t) ==
    LET me == th[t] IN
    /\ me.pc \in {"pp_load", "pp_cas", "pp_store", "pp_empty", "pp_again", "pp_top",
                  "pp_slot", "pp_busy", "pp_ld", "pp_dec", "pp_unlock", "pp_copy",
                  "pp_free"}
    /\ CASE me.pc = "pp_load" ->
              /\ th' = [th EXCEPT ![t].exp = stack.lock_expect_false, ![t].pc = "pp_cas"]
              /\ UNCHANGED stack
         [] me.pc = "pp_cas" ->
              IF GateMatches(stack.lock.write, me.exp)
              THEN /\ stack' = [stack EXCEPT !.lock.write = TRUE]
                   /\ th' = [th EXCEPT ![t].exp = FALSE, ![t].pc = "pp_empty"]
              ELSE /\ th' = Goto(t, "pp_store")
                   /\ UNCHANGED stack
         [] me.pc = "pp_store" ->
              /\ stack' = [stack EXCEPT !.lock_expect_false = ~me.exp]
              /\ th' = Ret(t, -EBUSY)
         [] me.pc = "pp_empty" ->
              /\ th' = Goto(t, IF stack.top = 0 THEN "pp_again" ELSE "pp_top")
              /\ UNCHANGED stack
         [] me.pc = "pp_again" ->
              /\ stack' = [stack EXCEPT !.lock = CLEAR_WRITE_LOCK(stack.lock)]
              /\ th' = Ret(t, -EAGAIN)
         [] me.pc = "pp_top" ->
              /\ th' = [th EXCEPT ![t].cur = Wrap(stack.top - 1), ![t].pc = "pp_slot"]
              /\ UNCHANGED stack
         [] me.pc = "pp_slot" ->
              IF me.cur \in StackSlots
              THEN /\ stack' = [stack EXCEPT !.lock = EXPECT_SLOT_STATE(
                                     stack.lock, me.cur, BUFFER_READY, BUFFER_READING)]
                   /\ th' = Goto(t, IF SlotMatches(stack.lock, me.cur, BUFFER_READY)
                                    THEN "pp_ld" ELSE "pp_busy")
              ELSE /\ \E ok \in BOOLEAN : th' = Goto(t, IF ok THEN "pp_ld" ELSE "pp_busy")
                   /\ UNCHANGED stack
         [] me.pc = "pp_busy" ->
              /\ stack' = [stack EXCEPT !.lock = CLEAR_WRITE_LOCK(stack.lock)]
              /\ th' = Ret(t, -EBUSY)
         [] me.pc = "pp_ld" ->
              \* the load of stack->top--
              /\ th' = [th EXCEPT ![t].hd = stack.top, ![t].pc = "pp_dec"]
              /\ UNCHANGED stack
         [] me.pc = "pp_dec" ->
              /\ stack' = [stack EXCEPT !.top = Wrap(me.hd - 1)]
              /\ th' = [th EXCEPT ![t].hd = 0, ![t].addr = me.cur, ![t].pc = "pp_unlock"]
         [] me.pc = "pp_unlock" ->
              /\ stack' = [stack EXCEPT !.lock = CLEAR_WRITE_LOCK(stack.lock)]
              /\ th' = [th EXCEPT ![t].i = 0, ![t].pc = "pp_copy"]
         [] me.pc = "pp_copy" ->
              /\ \E b \in StackVisible(t, 0, me.i) :
                    th' = [th EXCEPT ![t].data[me.i] = b,
                                     ![t].i = me.i + 1,
                                     ![t].pc = IF me.i + 1 < me.size
                                               THEN "pp_copy" ELSE "pp_free"]
              /\ UNCHANGED stack
         [] me.pc = "pp_free" ->
              /\ stack' = IF me.cur \in StackSlots
                          THEN [stack EXCEPT !.lock = SET_SLOT_STATE(
                                    stack.lock, me.cur, BUFFER_FREE)]
                          ELSE stack
              /\ th' = Ret(t, me.cur)
    /\ hist' = IF me.pc = "pp_free" /\ me.cur \in StackSlots
               THEN NotePop(hist, me.cur)
               ELSE hist
    /\ UNCHANGED <<buffer, raw, lock, lock_expect_false, queue, allocator>>

\* One step of thread t inside stackPop.
stackPop(t) ==
    LET me == th[t] IN
    /\ me.pc \in {"pp_load", "pp_cas", "pp_store", "pp_empty", "pp_again", "pp_top",
                  "pp_slot", "pp_busy", "pp_ld", "pp_dec", "pp_unlock", "pp_copy",
                  "pp_free"}
    /\ CASE me.pc = "pp_load" ->
              /\ th' = [th EXCEPT ![t].exp = stack.lock_expect_false, ![t].pc = "pp_cas"]
              /\ UNCHANGED stack
         [] me.pc = "pp_cas" ->
              IF GateMatches(stack.lock.write, me.exp)
              THEN /\ stack' = [stack EXCEPT !.lock.write = TRUE]
                   /\ th' = [th EXCEPT ![t].exp = FALSE, ![t].pc = "pp_empty"]
              ELSE /\ th' = Goto(t, "pp_store")
                   /\ UNCHANGED stack
         [] me.pc = "pp_store" ->
              /\ stack' = [stack EXCEPT !.lock_expect_false = ~me.exp]
              /\ th' = Ret(t, -EBUSY)
         [] me.pc = "pp_empty" ->
              /\ th' = Goto(t, IF stack.top = 0 THEN "pp_again" ELSE "pp_top")
              /\ UNCHANGED stack
         [] me.pc = "pp_again" ->
              /\ stack' = [stack EXCEPT !.lock = CLEAR_WRITE_LOCK(stack.lock)]
              /\ th' = Ret(t, -EAGAIN)
         [] me.pc = "pp_top" ->
              /\ th' = [th EXCEPT ![t].cur = Wrap(stack.top - 1), ![t].pc = "pp_slot"]
              /\ UNCHANGED stack
         [] me.pc = "pp_slot" ->
              IF me.cur \in StackSlots
              THEN /\ stack' = [stack EXCEPT !.lock = EXPECT_SLOT_STATE(
                                     stack.lock, me.cur, BUFFER_READY, BUFFER_READING)]
                   /\ th' = Goto(t, IF SlotMatches(stack.lock, me.cur, BUFFER_READY)
                                    THEN "pp_ld" ELSE "pp_busy")
              ELSE /\ \E ok \in BOOLEAN : th' = Goto(t, IF ok THEN "pp_ld" ELSE "pp_busy")
                   /\ UNCHANGED stack
         [] me.pc = "pp_busy" ->
              /\ stack' = [stack EXCEPT !.lock = CLEAR_WRITE_LOCK(stack.lock)]
              /\ th' = Ret(t, -EBUSY)
         [] me.pc = "pp_ld" ->
              \* the load of stack->top--
              /\ th' = [th EXCEPT ![t].hd = stack.top, ![t].pc = "pp_dec"]
              /\ UNCHANGED stack
         [] me.pc = "pp_dec" ->
              /\ stack' = [stack EXCEPT !.top = Wrap(me.hd - 1)]
              /\ th' = [th EXCEPT ![t].hd = 0, ![t].addr = me.cur, ![t].pc = "pp_unlock"]
         [] me.pc = "pp_unlock" ->
              /\ stack' = [stack EXCEPT !.lock = CLEAR_WRITE_LOCK(stack.lock)]
              /\ th' = [th EXCEPT ![t].i = 0, ![t].pc = "pp_copy"]
         [] me.pc = "pp_copy" ->
              /\ \E b \in StackVisible(t, me.addr, me.i) :
                    th' = [th EXCEPT ![t].data[me.i] = b,
                                     ![t].i = me.i + 1,
                                     ![t].pc = IF me.i + 1 < me.size
                                               THEN "pp_copy" ELSE "pp_free"]
              /\ UNCHANGED stack
         [] me.pc = "pp_free" ->
              /\ stack' = IF me.cur \in StackSlots
                          THEN [stack EXCEPT !.lock = SET_SLOT_STATE(
                                    stack.lock, me.cur, BUFFER_FREE)]
                          ELSE stack
              /\ th' = Ret(t, me.cur)
    /\ hist' = IF me.pc = "pp_free" /\ me.cur \in StackSlots
               THEN NotePop(hist, me.cur)
               ELSE hist
    /\ UNCHANGED <<buffer, raw, lock, lock_expect_false, queue, allocator>>

\* void stackClear(stack): stk says whether the pointer is non-null.
Call_stackClear(t, stk) ==
    /\ th[t].pc = "idle"
    /\ th' = IF stk THEN [th EXCEPT ![t].pc = "sc_top", ![t].op = "sclear"] ELSE th
    /\ UNCHANGED <<buffer, raw, lock, lock_expect_false, stack, queue, hist, allocator>>

stackClear(t) ==
    LET me == th[t] IN
    /\ me.pc \in {"sc_top", "sc_full"}
    /\ CASE me.pc = "sc_top" ->
              /\ stack' = [stack EXCEPT !.top = 0]
              /\ th' = Goto(t, "sc_full")
         [] me.pc = "sc_full" ->
              /\ stack' = [stack EXCEPT !.full = FALSE]
              /\ th' = Ret(t, me.res)
    /\ hist' = IF me.pc = "sc_full" THEN NoteClear(hist) ELSE hist
    /\ UNCHANGED <<buffer, raw, lock, lock_expect_false, queue, allocator>>

(* ------------- allocation (USE_BITMAP_ALLOCATOR, USE_ATOMIC) ---------- *)

\* The blocks the constructors ask the allocator for, named after what
\* they hold (the raw storage of a buffer and of a stack share a name: the
\* caller holds one structure at a time).
Blocks == {"Lock_t", "slot_state", "Buffer", "Stack", "raw", "Queue", "msg_len"}

\* The allocator's and the lock's success codes; queueDeallocate compares
\* the result of bufferDeallocate with BLOCK_ALLOCATOR_OK, so the two agree.
BLOCK_ALLOCATOR_OK == BUFFER_OK
LOCK_OK == 0
QUEUE_OK == 0

\* What blockDeallocate returns: ok says whether the allocator took the
\* block back.
BlockResult(ok) == IF ok THEN BLOCK_ALLOCATOR_OK ELSE -EINVAL

\* void* blockAllocate(allocator, size) asked for block b: ok says whether
\* the allocator can satisfy the request (it returns NULL otherwise).
blockAllocate(a, b, ok) ==
    IF ok
    THEN [a EXCEPT !.live = @ \cup {b}, !.got = @ \cup {b}]
    ELSE [a EXCEPT !.afail = TRUE]

\* int blockDeallocate(allocator, ptr) handed block b.
blockDeallocate(a, b, ok) ==
    [a EXCEPT !.back = @ \cup {b}, !.live = IF ok THEN @ \ {b} ELSE @]

\* The allocator at the start of a call named op.
Fresh(a, op) ==
    [a EXCEPT !.op = op, !.ok = FALSE, !.got = {}, !.back = {}, !.afail = FALSE,
              !.dfail = FALSE]

\* The memory of a block of S elements of T bytes as the allocator returns
\* it: none of the constructors clears it, so every byte holds a value the
\* program has not written.
Garbage(S, T) == [s \in 0..(S - 1) |-> Untouched(T)]

\* Lock_t* lockAllocate(allocator, size).  alloc says whether the allocator
\* pointer is non-null; f[b] and g[b] say whether the allocator satisfies the
\* request for block b and whether it takes block b back.
lockAllocate(a, alloc, size, f, g) ==
    IF ~alloc \/ size = 0 THEN [a |-> a, ptr |-> FALSE]
    ELSE LET a1 == blockAllocate(a, "Lock_t", f["Lock_t"])
             a2 == blockAllocate(a1, "slot_state", f["slot_state"])
         IN
         IF ~f["Lock_t"] THEN [a |-> a1, ptr |-> FALSE]
         ELSE IF ~f["slot_state"]
         THEN [a |-> blockDeallocate(a2, "Lock_t", g["Lock_t"]), ptr |-> FALSE]
         ELSE [a |-> a2, ptr |-> TRUE]

\* int lockDeallocate(allocator, lock): ref says whether `lock` is
\* non-null, lockp whether *lock is.
lockDeallocate(a, alloc, ref, lockp, g) ==
    IF ~alloc \/ ~ref \/ ~lockp THEN [a |-> a, res |-> -EINVAL, lockp |-> lockp]
    ELSE LET a1 == blockDeallocate(a, "slot_state", g["slot_state"])
             a2 == blockDeallocate(a1, "Lock_t", g["Lock_t"])
             res1 == BlockResult(g["slot_state"])
             res2 == BlockResult(g["Lock_t"])
             res == IF res1 # BLOCK_ALLOCATOR_OK THEN res1
                    ELSE IF res2 # BLOCK_ALLOCATOR_OK THEN res2
                    ELSE LOCK_OK
         IN
         [a |-> [a2 EXCEPT !.dfail = @ \/ res1 # BLOCK_ALLOCATOR_OK
                                          \/ res2 # BLOCK_ALLOCATOR_OK],
          res |-> res, lockp |-> res # LOCK_OK]

\* Buffer* bufferAllocate(allocator, size, type_size)
bufferAllocate(a, alloc, size, type_size, f, g) ==
    IF ~alloc \/ size = 0 \/ type_size = 0 THEN [a |-> a, ptr |-> FALSE]
    ELSE LET a1 == blockAllocate(a, "Buffer", f["Buffer"])
             a2 == blockAllocate(a1, "raw", f["raw"])
             l == lockAllocate(a2, alloc, size, f, g)
         IN
         IF ~f["Buffer"] THEN [a |-> a1, ptr |-> FALSE]
         ELSE IF ~f["raw"]
         THEN [a |-> blockDeallocate(a2, "Buffer", g["Buffer"]), ptr |-> FALSE]
         ELSE IF ~l.ptr
         THEN [a |-> blockDeallocate(blockDeallocate(l.a, "raw", g["raw"]),
                                     "Buffer", g["Buffer"]),
               ptr |-> FALSE]
         ELSE [a |-> l.a, ptr |-> TRUE]

\* int bufferDeallocate(allocator, buffer): ref says whether `buffer` is
\* non-null, bufp whether *buffer is, lockp whether (*buffer)->lock is.
bufferDeallocate(a, alloc, ref, bufp, lockp, g) ==
    IF ~alloc \/ ~ref \/ ~bufp
    THEN [a |-> a, res |-> -EINVAL, bufp |-> bufp, lockp |-> lockp]
    ELSE LET l == lockDeallocate(a, alloc, TRUE, lockp, g)
             a2 == blockDeallocate(l.a, "raw", g["raw"])
             a3 == blockDeallocate(a2, "Buffer", g["Buffer"])
             res1 == l.res
             res2 == BlockResult(g["raw"])
             res3 == BlockResult(g["Buffer"])
             res == IF res1 # LOCK_OK THEN res1
                    ELSE IF res2 # BLOCK_ALLOCATOR_OK THEN res2
                    ELSE IF res3 # BLOCK_ALLOCATOR_OK THEN res3
                    ELSE BUFFER_OK
         IN
         [a |-> [a3 EXCEPT !.dfail = @ \/ res1 # LOCK_OK
                                          \/ res2 # BLOCK_ALLOCATOR_OK
                                          \/ res3 # BLOCK_ALLOCATOR_OK],
          res |-> res, bufp |-> res # BUFFER_OK, lockp |-> l.lockp]

\* Stack* stackAllocate(allocator, size, type_size): the result of
\* lockAllocate is stored and not tested.
stackAllocate(a, alloc, size, type_size, f, g) ==
    IF ~alloc \/ size = 0 \/ type_size = 0
    THEN [a |-> a, ptr |-> FALSE, lockp |-> FALSE]
    ELSE LET a1 == blockAllocate(a, "Stack", f["Stack"])
             a2 == blockAllocate(a1, "raw", f["raw"])
             l == lockAllocate(a2, alloc, size, f, g)
         IN
         IF ~f["Stack"] THEN [a |-> a1, ptr |-> FALSE, lockp |-> FALSE]
         ELSE IF ~f["raw"]
         THEN [a |-> blockDeallocate(a2, "Stack", g["Stack"]), ptr |-> FALSE,
               lockp |-> FALSE]
         ELSE [a |-> l.a, ptr |-> TRUE, lockp |-> l.ptr]

\* int stackDeallocate(allocator, stack): res2 is tested twice and res3
\* never.
stackDeallocate(a, alloc, ref, stkp, lockp, g) ==
    IF ~alloc \/ ~ref \/ ~stkp
    THEN [a |-> a, res |-> -EINVAL, stkp |-> stkp, lockp |-> lockp]
    ELSE LET l == lockDeallocate(a, alloc, TRUE, lockp, g)
             a2 == blockDeallocate(l.a, "raw", g["raw"])
             a3 == blockDeallocate(a2, "Stack", g["Stack"])
             res1 == l.res
             res2 == BlockResult(g["raw"])
             res3 == BlockResult(g["Stack"])
             res == IF res1 # LOCK_OK THEN res1
                    ELSE IF res2 # BLOCK_ALLOCATOR_OK THEN res2
                    ELSE IF res2 # BLOCK_ALLOCATOR_OK THEN res2
                    ELSE STACK_OK
         IN
         [a |-> [a3 EXCEPT !.dfail = @ \/ res1 # LOCK_OK
                                          \/ res2 # BLOCK_ALLOCATOR_OK
                                          \/ res3 # BLOCK_ALLOCATOR_OK],
          res |-> res, stkp |-> res # STACK_OK, lockp |-> l.lockp]

\* Queue* queueAllocate(allocator, slot_len, size)
queueAllocate(a, alloc, slot_len, size, f, g) ==
    IF ~alloc \/ slot_len = 0 \/ size = 0 THEN [a |-> a, ptr |-> FALSE]
    ELSE LET a1 == blockAllocate(a, "Queue", f["Queue"])
             b == bufferAllocate(a1, alloc, size, slot_len, f, g)
             a3 == blockAllocate(b.a, "msg_len", f["msg_len"])
             d == bufferDeallocate(a3, alloc, TRUE, TRUE, TRUE, g)
         IN
         IF ~f["Queue"] THEN [a |-> a1, ptr |-> FALSE]
         ELSE IF ~b.ptr
         THEN [a |-> blockDeallocate(b.a, "Queue", g["Queue"]), ptr |-> FALSE]
         ELSE IF ~f["msg_len"]
         THEN [a |-> blockDeallocate(d.a, "Queue", g["Queue"]), ptr |-> FALSE]
         ELSE [a |-> a3, ptr |-> TRUE]

\* int queueDeallocate(allocator, queue): ref says whether `queue` is
\* non-null, qp whether *queue is, bufp and lockp whether its slot_buffer and
\* the buffer's lock are.
queueDeallocate(a, alloc, ref, qp, bufp, lockp, g) ==
    IF ~alloc \/ ~ref \/ ~qp
    THEN [a |-> a, res |-> -EINVAL, qp |-> qp, bufp |-> bufp, lockp |-> lockp]
    ELSE LET b == bufferDeallocate(a, alloc, TRUE, bufp, lockp, g)
             a2 == blockDeallocate(b.a, "msg_len", g["msg_len"])
             a3 == blockDeallocate(a2, "Queue", g["Queue"])
             res1 == b.res
             res2 == BlockResult(g["msg_len"])
             res3 == BlockResult(g["Queue"])
             res == IF res1 # BLOCK_ALLOCATOR_OK THEN res1
                    ELSE IF res2 # BLOCK_ALLOCATOR_OK THEN res2
                    ELSE IF res3 # BLOCK_ALLOCATOR_OK THEN res3
                    ELSE QUEUE_OK
         IN
         [a |-> [a3 EXCEPT !.dfail = @ \/ res1 # BLOCK_ALLOCATOR_OK
                                          \/ res2 # BLOCK_ALLOCATOR_OK
                                          \/ res3 # BLOCK_ALLOCATOR_OK],
          res |-> res, qp |-> res # QUEUE_OK, bufp |-> b.bufp, lockp |-> b.lockp]

\* The outcomes the allocator may give to the requests a call makes in the
\* order bs: it satisfies the first k and refuses the next one (a
\* constructor makes no request after one that was refused).
Outcomes(bs) ==
    {[b \in {bs[i] : i \in DOMAIN bs} |-> \E i \in 1..k : bs[i] = b] : k \in 0..Len(bs)}

\* The outcomes of the returns that matter after the outcomes f of the
\* requests: a constructor whose requests all succeed returns no block.
Returns(bs, f) ==
    LET B == {bs[i] : i \in DOMAIN bs} IN
    IF \A b \in B : f[b] THEN {[b \in B |-> TRUE]} ELSE [B -> BOOLEAN]

\* The outcomes of the returns of a destructor.
AnyReturns(bs) == [{bs[i] : i \in DOMAIN bs} -> BOOLEAN]

\* The blocks of a lock, a buffer, a stack and a queue in the order in
\* which the constructors request them.
LockBlocks == <<"Lock_t", "slot_state">>
BufferBlocks == <<"Buffer", "raw">> \o LockBlocks
StackBlocks == <<"Stack", "raw">> \o LockBlocks
QueueBlocks == <<"Queue">> \o BufferBlocks \o <<"msg_len">>

\* lock = lockAllocate(allocator, size) called with a null lock pointer.
Call_lockAllocate(t, alloc, size) ==
    /\ th[t].pc = "idle"
    /\ allocator.ptr = "null"
    /\ \E f \in Outcomes(LockBlocks) : \E g \in Returns(LockBlocks, f) :
          LET r == lockAllocate(Fresh(allocator, "lockAllocate"), alloc, size, f, g) IN
          /\ allocator' = [r.a EXCEPT !.ptr = IF r.ptr THEN "lock" ELSE "null",
                                      !.lockp = r.ptr, !.ok = r.ptr]
          /\ lock' = IF r.ptr THEN CREATE_LOCK(size) ELSE lock
    /\ UNCHANGED <<buffer, raw, lock_expect_false, stack, queue, th, hist>>

\* lockDeallocate(allocator, &lock); ref says whether the address passed is
\* non-null.
Call_lockDeallocate(t, alloc, ref) ==
    /\ th[t].pc = "idle"
    /\ allocator.ptr \in {"null", "lock"}
    /\ \E g \in AnyReturns(LockBlocks) :
          LET r == lockDeallocate(Fresh(allocator, "lockDeallocate"), alloc, ref,
                                  allocator.lockp, g)
          IN
          /\ allocator' = [r.a EXCEPT !.ptr = IF r.lockp THEN "lock" ELSE "null",
                                      !.lockp = r.lockp, !.ok = (r.res = LOCK_OK)]
          /\ lock' = IF r.lockp THEN lock ELSE CREATE_LOCK(0)
          /\ th' = Ret(t, r.res)
    /\ UNCHANGED <<buffer, raw, lock_expect_false, stack, queue, hist>>

\* buf = bufferAllocate(allocator, size, type_size) called with a null buf.
Call_bufferAllocate(t, alloc, size, type_size) ==
    /\ th[t].pc = "idle"
    /\ allocator.ptr = "null"
    /\ \E f \in Outcomes(BufferBlocks) : \E g \in Returns(BufferBlocks, f) :
          LET r == bufferAllocate(Fresh(allocator, "bufferAllocate"), alloc, size,
                                  type_size, f, g)
          IN
          /\ allocator' = [r.a EXCEPT !.ptr = IF r.ptr THEN "buffer" ELSE "null",
                                      !.lockp = r.ptr, !.ok = r.ptr]
          /\ IF r.ptr
             THEN /\ buffer' = [full |-> FALSE, head |-> 0, tail |-> 0, size |-> size,
                                type_size |-> type_size]
                  /\ raw' = Garbage(size, type_size)
                  /\ lock' = CREATE_LOCK(size)
             ELSE UNCHANGED <<buffer, raw, lock>>
    /\ UNCHANGED <<lock_expect_false, stack, queue, th, hist>>

\* bufferDeallocate(allocator, &buf)
Call_bufferDeallocate(t, alloc, ref) ==
    /\ th[t].pc = "idle"
    /\ allocator.ptr \in {"null", "buffer"}
    /\ \E g \in AnyReturns(BufferBlocks) :
          LET r == bufferDeallocate(Fresh(allocator, "bufferDeallocate"), alloc, ref,
                                    allocator.ptr = "buffer", allocator.lockp, g)
          IN
          /\ allocator' = [r.a EXCEPT !.ptr = IF r.bufp THEN "buffer" ELSE "null",
                                      !.lockp = r.lockp, !.ok = (r.res = BUFFER_OK)]
          /\ IF r.bufp
             THEN UNCHANGED <<buffer, raw, lock>>
             ELSE /\ buffer' = [full |-> FALSE, head |-> 0, tail |-> 0, size |-> 0,
                                type_size |-> 0]
                  /\ raw' = <<>>
                  /\ lock' = CREATE_LOCK(0)
          /\ th' = Ret(t, r.res)
    /\ UNCHANGED <<lock_expect_false, stack, queue, hist>>

\* stk = stackAllocate(allocator, size, type_size) called with a null stk.
Call_stackAllocate(t, alloc, size, type_size) ==
    /\ th[t].pc = "idle"
    /\ allocator.ptr = "null"
    /\ \E f \in Outcomes(StackBlocks) : \E g \in Returns(StackBlocks, f) :
          LET r == stackAllocate(Fresh(allocator, "stackAllocate"), alloc, size,
                                 type_size, f, g)
          IN
          /\ allocator' = [r.a EXCEPT !.ptr = IF r.ptr THEN "stack" ELSE "null",
                                      !.lockp = r.lockp, !.ok = r.ptr]
          /\ IF r.ptr
             THEN    stack' = [full |-> FALSE, size |-> size, type_size |-> type_size,
                               top |-> 0, raw |-> Garbage(size, type_size),
                               lock |-> CREATE_LOCK(IF r.lockp THEN size ELSE 0),
                               lock_expect_false |-> stack.lock_expect_false]
             ELSE UNCHANGED stack
    /\ UNCHANGED <<buffer, raw, lock, lock_expect_false, queue, th, hist>>

\* stackDeallocate(allocator, &stk)
Call_stackDeallocate(t, alloc, ref) ==
    /\ th[t].pc = "idle"
    /\ allocator.ptr \in {"null", "stack"}
    /\ \E g \in AnyReturns(StackBlocks) :
          LET r == stackDeallocate(Fresh(allocator, "stackDeallocate"), alloc, ref,
                                   allocator.ptr = "stack", allocator.lockp, g)
          IN
          /\ allocator' = [r.a EXCEPT !.ptr = IF r.stkp THEN "stack" ELSE "null",
                                      !.lockp = r.lockp, !.ok = (r.res = STACK_OK)]
          /\ stack' = IF r.stkp THEN stack
                      ELSE [NoStack EXCEPT !.lock_expect_false = stack.lock_expect_false]
          /\ th' = Ret(t, r.res)
    /\ UNCHANGED <<buffer, raw, lock, lock_expect_false, queue, hist>>

\* q = queueAllocate(allocator, slot_len, size) called with a null q; the
\* length table is not initialised.
Call_queueAllocate(t, alloc, slot_len, size) ==
    /\ th[t].pc = "idle"
    /\ allocator.ptr = "null"
    /\ \E f \in Outcomes(QueueBlocks) : \E g \in Returns(QueueBlocks, f) :
          LET r == queueAllocate(Fresh(allocator, "queueAllocate"), alloc, slot_len,
                                 size, f, g)
          IN
          /\ allocator' = [r.a EXCEPT !.ptr = IF r.ptr THEN "queue" ELSE "null",
                                      !.lockp = r.ptr, !.bufp = r.ptr, !.ok = r.ptr]
          /\ IF r.ptr
             THEN /\ buffer' = [full |-> FALSE, head |-> 0, tail |-> 0, size |-> size,
                                type_size |-> slot_len]
                  /\ raw' = Garbage(size, slot_len)
                  /\ lock' = CREATE_LOCK(size)
                  /\ \E m \in [0..(size - 1) -> 0..(slot_len + 1)] :
                        queue' = [msg_len |-> m, slot_len |-> slot_len]
             ELSE UNCHANGED <<buffer, raw, lock, queue>>
    /\ UNCHANGED <<lock_expect_false, stack, th, hist>>

\* queueDeallocate(allocator, &q)
Call_queueDeallocate(t, alloc, ref) ==
    /\ th[t].pc = "idle"
    /\ allocator.ptr \in {"null", "queue"}
    /\ \E g \in AnyReturns(QueueBlocks) :
          LET r == queueDeallocate(Fresh(allocator, "queueDeallocate"), alloc, ref,
                                   allocator.ptr = "queue", allocator.bufp,
                                   allocator.lockp, g)
          IN
          /\ allocator' = [r.a EXCEPT !.ptr = IF r.qp THEN "queue" ELSE "null",
                                      !.lockp = r.lockp, !.bufp = r.bufp,
                                      !.ok = (r.res = QUEUE_OK)]
          /\ IF r.qp
             THEN UNCHANGED <<buffer, raw, lock, queue>>
             ELSE /\ buffer' = [full |-> FALSE, head |-> 0, tail |-> 0, size |-> 0,
                                type_size |-> 0]
                  /\ raw' = <<>>
                  /\ lock' = CREATE_LOCK(0)
                  /\ queue' = NoQueue
          /\ th' = Ret(t, r.res)
    /\ UNCHANGED <<lock_expect_false, stack, hist>>

(* --------------------------- specifications --------------------------- *)

\* The steps of a bufferWrite and of a bufferRead in progress.
WriteSteps(t) == bufferWriteClaim(t) \/ bufferWriteRaw(t)
ReadSteps(t) == bufferReadClaim(t) \/ bufferReadRaw(t)
SplitSteps(t) ==
    CallerFill(t) \/ bufferWriteRelease(t) \/ CallerDrain(t) \/ bufferReadRelease(t)

\* One thread calling bufferWrite and bufferRead one after the other.
NextSeq ==
    \/ \E d \in Data : Call_bufferWrite(1, d)
    \/ Call_bufferRead(1)
    \/ WriteSteps(1)
    \/ ReadSteps(1)

InitSeq == \E S \in 1..BufSize, T \in 1..TypeSize : InitBuffer(S, T, TRUE)

SpecSeq == InitSeq /\ [][NextSeq]_vars

\* One thread calling bufferWriteRaw and bufferReadRaw one after the other,
\* with any arguments.
Sizes == 0..(TypeSize + 1)

NextRaw ==
    \/ \E buf, dat \in BOOLEAN, d \in Data, size \in Sizes :
           Call_bufferWriteRaw(1, buf, dat, d, size)
    \/ \E buf, dat \in BOOLEAN, size \in Sizes : Call_bufferReadRaw(1, buf, dat, size)
    \/ WriteSteps(1)
    \/ ReadSteps(1)

InitRaw == InitBuffer(BufSize, TypeSize, TRUE)

SpecRaw == InitRaw /\ [][NextRaw]_vars

\* One thread calling bufferWrite, bufferRead and bufferClear one after the
\* other.
NextClear ==
    \/ \E d \in Data : Call_bufferWrite(1, d)
    \/ Call_bufferRead(1)
    \/ \E buf \in BOOLEAN : Call_bufferClear(1, buf)
    \/ WriteSteps(1)
    \/ ReadSteps(1)
    \/ bufferClear(1)

InitClear == \E S \in 1..BufSize : InitBuffer(S, TypeSize, TRUE)

SpecClear == InitClear /\ [][NextClear]_vars

\* One writer thread (1) concurrent with one reader thread (2).
Writer == 1
Reader == 2

\* The writer calls bufferWrite again whenever a call has returned, whatever
\* it returned, and takes the steps of the call in progress; so the reader
\* with bufferRead.
WriterNext ==
    \/ \E d \in Data : Call_bufferWrite(Writer, d)
    \/ WriteSteps(Writer)

ReaderNext ==
    \/ Call_bufferRead(Reader)
    \/ ReadSteps(Reader)

NextSPSC == WriterNext \/ ReaderNext

InitSPSC == \E S \in 1..BufSize : InitBuffer(S, TypeSize, TRUE)

SpecSPSC == InitSPSC /\ [][NextSPSC]_vars

\* Both threads keep running: each finishes the call it started and calls
\* again after every return.
FairSpecSPSC ==
    InitSPSC /\ [][NextSPSC]_vars /\ WF_vars(WriterNext) /\ WF_vars(ReaderNext)

\* Two threads calling bufferWrite concurrently, nobody reading.
NextWW ==
    \E t \in {1, 2} :
        \/ \E d \in Data : Call_bufferWrite(t, d)
        \/ WriteSteps(t)

InitWW == InitBuffer(BufSize, TypeSize, TRUE)

SpecWW == InitWW /\ [][NextWW]_vars

\* Any thread calling bufferWrite, bufferRead, or the split calls, releasing
\* the index it claimed.
Next ==
    \E t \in Threads :
        \/ \E d \in Data : Call_bufferWrite(t, d) \/ Call_bufferWriteClaim(t, d)
        \/ Call_bufferRead(t)
        \/ Call_bufferReadClaim(t)
        \/ WriteSteps(t)
        \/ ReadSteps(t)
        \/ SplitSteps(t)

Init == InitBuffer(BufSize, TypeSize, FALSE)

Spec == Init /\ [][Next]_vars

\* Any thread calling any public operation of the buffer, the release
\* functions with any index in range.
NextAny ==
    \E t \in Threads :
        \/ Call_bufferWrite(t, 1)
        \/ Call_bufferRead(t)
        \/ Call_bufferWriteClaimOnly(t)
        \/ Call_bufferReadClaimOnly(t)
        \/ \E index \in Slots : Call_bufferWriteRelease(t, index)
        \/ \E index \in Slots : Call_bufferReadRelease(t, index)
        \/ WriteSteps(t)
        \/ ReadSteps(t)
        \/ bufferWriteRelease(t)
        \/ bufferReadRelease(t)

\* A buffer of one one-byte slot, as CREATE_BUFFER(buf, 1, sizeof(uint8_t)):
\* every call of every thread meets the others on the same slot.
InitAny == InitBuffer(1, 1, FALSE)

SpecAny == InitAny /\ [][NextAny]_vars
\* One thread calling every function of buffer.c one after the other, the
\* split forms included: claims it may never release, and releases with any
\* index in range, claimed or not.
NextSplit ==
    \/ \E d \in Data : Call_bufferWrite(1, d)
    \/ Call_bufferRead(1)
    \/ \E d \in Data : Call_bufferWriteClaim(1, d)
    \/ Call_bufferReadClaim(1)
    \/ Call_bufferWriteClaimOnly(1)
    \/ Call_bufferReadClaimOnly(1)
    \/ \E index \in Slots : Call_bufferWriteRelease(1, index)
    \/ \E index \in Slots : Call_bufferReadRelease(1, index)
    \/ \E buf \in BOOLEAN : Call_bufferClear(1, buf)
    \/ WriteSteps(1)
    \/ ReadSteps(1)
    \/ SplitSteps(1)
    \/ bufferClear(1)

InitSplit == \E S \in 1..BufSize : InitObserved(S, TypeSize, FALSE, TRUE)

SpecSplit == InitSplit /\ [][NextSplit]_vars
\* Any thread calling any operation of the one structure the program has.
OpSteps(t) ==
    \/ WriteSteps(t)
    \/ ReadSteps(t)
    \/ bufferWriteRelease(t)
    \/ bufferReadRelease(t)
    \/ bufferClear(t)
    \/ queueWrite(t)
    \/ queueRead(t)
    \/ queueWriteRelease(t)
    \/ queueClear(t)
    \/ stackPush(t)
    \/ stackPop(t)
    \/ stackClear(t)

NextOps ==
    \E t \in Threads :
        \/ queue = NoQueue /\ buffer.size > 0 /\ Call_bufferWrite(t, 1)
        \/ queue = NoQueue /\ buffer.size > 0 /\ Call_bufferRead(t)
        \/ buffer.size > 0 /\ Call_bufferWriteClaimOnly(t)
        \/ buffer.size > 0 /\ Call_bufferReadClaimOnly(t)
        \/ queue = NoQueue /\ \E index \in Slots : Call_bufferWriteRelease(t, index)
        \/ \E index \in Slots : Call_bufferReadRelease(t, index)
        \/ queue = NoQueue /\ buffer.size > 0 /\ Call_bufferClear(t, TRUE)
        \/ \E len \in 1..queue.slot_len : Call_queueWrite(t, TRUE, TRUE, 1, len)
        \/ \E len \in 1..queue.slot_len : Call_queueRead(t, TRUE, TRUE, len)
        \/ \E index \in Slots, len \in 1..queue.slot_len :
               Call_queueWriteRelease(t, index, len)
        \/ queue # NoQueue /\ Call_queueClear(t, TRUE)
        \/ stack # NoStack /\ Call_stackPush(t, TRUE, TRUE, 1)
        \/ stack # NoStack /\ Call_stackPop(t, TRUE, TRUE)
        \/ stack # NoStack /\ Call_stackClear(t, TRUE)
        \/ OpSteps(t)

\* The program has a buffer, or a queue (whose slot_buffer it reaches through
\* the queue's functions; queueWriteClaim, queueReadClaim and
\* queueReadRelease are the buffer's), or a stack.
InitOps ==
    /\ \/ CREATE_BUFFER(1, 1) /\ queue = NoQueue /\ stack = NoStack
       \/ CREATE_BUFFER(1, 1) /\ queue = CREATE_QUEUE(1, 1) /\ stack = NoStack
       \/ CREATE_BUFFER(0, 0) /\ queue = NoQueue /\ stack = CREATE_STACK(1, TypeSize)
    /\ th = [t \in Threads |-> Idle(BUFFER_OK)]
    /\ hist = Observer(1, FALSE, FALSE)

SpecOps == InitOps /\ [][NextOps]_vars
\* A writer thread that calls bufferWrite, or bufferWriteClaim without ever
\* calling bufferWriteRelease, concurrent with a reader thread that calls
\* bufferRead or bufferReadClaim / bufferReadRelease.
NextAbandon ==
    \/ \E d \in Data : Call_bufferWrite(Writer, d)
    \/ Call_bufferWriteClaimOnly(Writer)
    \/ WriteSteps(Writer)
    \/ Call_bufferRead(Reader)
    \/ Call_bufferReadClaim(Reader)
    \/ ReadSteps(Reader)
    \/ CallerDrain(Reader)
    \/ bufferReadRelease(Reader)

InitAbandon == \E S \in 1..BufSize : InitObserved(S, 1, FALSE, TRUE)

SpecAbandon == InitAbandon /\ [][NextAbandon]_vars
\* Thread 1 calling the copying functions of the buffer, or of the queue,
\* with every combination of present and null pointers and every length,
\* while the other threads make only the calls that have an invalid argument.
NextArgs ==
    \E t \in Threads :
        \/ \E buf, dat \in BOOLEAN, d \in Data, size \in Sizes :
               /\ queue = NoQueue
               /\ t = 1 \/ ~ArgsValid(buf, dat, size)
               /\ Call_bufferWriteRaw(t, buf, dat, d, size)
        \/ \E buf, dat \in BOOLEAN, size \in Sizes :
               /\ queue = NoQueue
               /\ t = 1 \/ ~ArgsValid(buf, dat, size)
               /\ Call_bufferReadRaw(t, buf, dat, size)
        \/ \E q, dat \in BOOLEAN, d \in Data, len \in Sizes :
               /\ queue # NoQueue
               /\ t = 1 \/ ~q \/ ~dat \/ len = 0
               /\ Call_queueWrite(t, q, dat, d, len)
        \/ \E q, dat \in BOOLEAN, len \in Sizes :
               /\ queue # NoQueue
               /\ t = 1 \/ ~q \/ ~dat \/ len = 0
               /\ Call_queueRead(t, q, dat, len)
        \/ WriteSteps(t)
        \/ ReadSteps(t)
        \/ queueWrite(t)
        \/ queueRead(t)

InitArgs ==
    /\ CREATE_BUFFER(1, TypeSize)
    /\ queue \in {NoQueue, CREATE_QUEUE(TypeSize, 1)}
    /\ stack = NoStack
    /\ th = [t \in Threads |-> Idle(BUFFER_OK)]
    /\ hist = Observer(1, FALSE, FALSE)

SpecArgs == InitArgs /\ [][NextArgs]_vars
\* One thread calling bufferWrite, bufferRead and bufferClear one after the
\* other on the atomic-mode buffer, which remembers the buffer each call found.
InitModes == \E S \in 1..BufSize : InitObserved(S, TypeSize, FALSE, TRUE)

SpecModes == InitModes /\ [][NextClear]_vars
\* One thread calling queueWrite and queueRead one after the other with every
\* length from 1 to one more than slot_len, on a queue of 1..BufSize slots
\* of TypeSize bytes.
NextQueueSeq ==
    \/ \E d \in Data, len \in 1..(queue.slot_len + 1) :
           Call_queueWrite(1, TRUE, TRUE, d, len)
    \/ \E len \in 1..(queue.slot_len + 1) : Call_queueRead(1, TRUE, TRUE, len)
    \/ WriteSteps(1)
    \/ ReadSteps(1)
    \/ queueWrite(1)
    \/ queueRead(1)

InitQueueSeq ==
    \E msg_count \in 1..BufSize :
        /\ CREATE_BUFFER(msg_count, TypeSize)
        /\ queue = CREATE_QUEUE(TypeSize, msg_count)
        /\ stack = NoStack
        /\ th = [t \in Threads |-> Idle(BUFFER_OK)]
        /\ hist = Observer(msg_count, FALSE, TRUE)

SpecQueueSeq == InitQueueSeq /\ [][NextQueueSeq]_vars
\* One thread calling every function of queue.c one after the other:
\* queueWriteClaim and queueReadClaim are bufferWriteClaim and
\* bufferReadClaim on the slot_buffer, queueReadRelease is
\* bufferReadRelease.  The thread releases only slots it has claimed.
NextQueueOps ==
    \/ \E d \in Data, len \in 1..(queue.slot_len + 1) :
           Call_queueWrite(1, TRUE, TRUE, d, len)
    \/ \E len \in 1..(queue.slot_len + 1) : Call_queueRead(1, TRUE, TRUE, len)
    \/ Call_bufferWriteClaimOnly(1)
    \/ Call_bufferReadClaimOnly(1)
    \/ \E index \in Slots, len \in 1..queue.slot_len :
           /\ lock.slot_state[index] = BUFFER_CLAIMED
           /\ Call_queueWriteRelease(1, index, len)
    \/ \E index \in Slots :
           /\ lock.slot_state[index] = BUFFER_READING
           /\ Call_bufferReadRelease(1, index)
    \/ Call_queueClear(1, TRUE)
    \/ WriteSteps(1)
    \/ ReadSteps(1)
    \/ bufferWriteRelease(1)
    \/ bufferReadRelease(1)
    \/ bufferClear(1)
    \/ queueWrite(1)
    \/ queueRead(1)
    \/ queueWriteRelease(1)
    \/ queueClear(1)

InitQueueOps ==
    \E msg_count \in 1..BufSize :
        /\ CREATE_BUFFER(msg_count, 1)
        /\ queue = CREATE_QUEUE(1, msg_count)
        /\ stack = NoStack
        /\ th = [t \in Threads |-> Idle(BUFFER_OK)]
        /\ hist = Observer(msg_count, FALSE, FALSE)

SpecQueueOps == InitQueueOps /\ [][NextQueueOps]_vars

\* One thread calling queueWrite and another calling queueRead on one queue
\* of 1..BufSize slots of TypeSize bytes, messages and maximum lengths of
\* 1..slot_len bytes.
NextQueueSPSC ==
    \/ \E len \in 1..queue.slot_len : Call_queueWrite(Writer, TRUE, TRUE, 1, len)
    \/ \E len \in 1..queue.slot_len : Call_queueRead(Reader, TRUE, TRUE, len)
    \/ WriteSteps(Writer)
    \/ queueWrite(Writer)
    \/ ReadSteps(Reader)
    \/ queueRead(Reader)

InitQueueSPSC ==
    \E msg_count \in 1..BufSize :
        /\ CREATE_BUFFER(msg_count, TypeSize)
        /\ queue = CREATE_QUEUE(TypeSize, msg_count)
        /\ stack = NoStack
        /\ th = [t \in Threads |-> Idle(BUFFER_OK)]
        /\ hist = Observer(msg_count, FALSE, FALSE)

SpecQueueSPSC == InitQueueSPSC /\ [][NextQueueSPSC]_vars

\* The index arguments of the release functions: every slot index of the
\* largest structure and BufSize, which is no slot index of any.
Indexes == 0..BufSize

\* One thread calling the claim and release functions of a buffer of
\* 1..BufSize slots of one byte, or of a queue of as many one-byte slots,
\* with any index in Indexes and any length in 1..slot_len + 1, whatever the
\* state of the slot, between whole writes and reads.
NextRelease ==
    \/ queue.slot_len = 0 /\ Call_bufferWrite(1, 1)
    \/ queue.slot_len = 0 /\ Call_bufferRead(1)
    \/ \E len \in 1..(queue.slot_len + 1) :
           queue.slot_len > 0 /\ Call_queueWrite(1, TRUE, TRUE, 1, len)
    \/ queue.slot_len > 0 /\ Call_queueRead(1, TRUE, TRUE, queue.slot_len + 1)
    \/ Call_bufferWriteClaimOnly(1)
    \/ Call_bufferReadClaimOnly(1)
    \/ \E index \in Indexes :
           queue.slot_len = 0 /\ Call_bufferWriteRelease(1, index)
    \/ \E index \in Indexes, len \in 1..(queue.slot_len + 1) :
           queue.slot_len > 0 /\ Call_queueWriteRelease(1, index, len)
    \/ \E index \in Indexes : Call_bufferReadRelease(1, index)
    \/ WriteSteps(1)
    \/ ReadSteps(1)
    \/ bufferWriteRelease(1)
    \/ bufferReadRelease(1)
    \/ queueWrite(1)
    \/ queueRead(1)
    \/ queueWriteRelease(1)

InitRelease ==
    \E N \in 1..BufSize :
        /\ CREATE_BUFFER(N, 1)
        /\ queue \in {NoQueue, CREATE_QUEUE(1, N)}
        /\ stack = NoStack
        /\ th = [t \in Threads |-> Idle(BUFFER_OK)]
        /\ hist = Observer(N, FALSE, TRUE)

SpecRelease == InitRelease /\ [][NextRelease]_vars
\* One thread calling stackPush and stackPop one after the other on a stack
\* of 1..BufSize elements of TypeSize bytes.
NextStackSeq ==
    \/ \E d \in Data : Call_stackPush(1, TRUE, TRUE, d)
    \/ Call_stackPop(1, TRUE, TRUE)
    \/ stackPush(1)
    \/ stackPop(1)

InitStackSeq ==
    \E count \in 1..BufSize :
        /\ CREATE_BUFFER(0, 0)
        /\ queue = NoQueue
        /\ stack = CREATE_STACK(count, TypeSize)
        /\ th = [t \in Threads |-> Idle(BUFFER_OK)]
        /\ hist = Observer(count, TRUE, TRUE)

SpecStackSeq == InitStackSeq /\ [][NextStackSeq]_vars

\* Thread 1 calling stackPush and stackPop and every other thread calling
\* stackPop on one stack of 1..BufSize elements of one byte, in any
\* interleaving of their steps; every push stores the same byte.
NextStackAny ==
    \E t \in Threads :
        \/ t = 1 /\ Call_stackPush(t, TRUE, TRUE, 1)
        \/ Call_stackPop(t, TRUE, TRUE)
        \/ stackPush(t)
        \/ stackPop(t)

InitStackAny ==
    \E count \in 1..BufSize :
        /\ CREATE_BUFFER(0, 0)
        /\ queue = NoQueue
        /\ stack = CREATE_STACK(count, 1)
        /\ th = [t \in Threads |-> Idle(BUFFER_OK)]
        /\ hist = Observer(count, TRUE, FALSE)

SpecStackAny == InitStackAny /\ [][NextStackAny]_vars

\* Any threads calling the buffer operations on a buffer of one one-byte
\* slot, or thread 1 calling stackPush and stackPop and the other threads
\* stackPop on a stack of 1..BufSize one-byte elements.
NextGates ==
    \/ buffer.size > 0 /\ NextAny
    \/ stack.size > 0 /\ NextStackAny

InitGates == InitAny \/ InitStackAny

SpecGates == InitGates /\ [][NextGates]_vars

\* One thread writing, reading and clearing one structure of 1..BufSize
\* slots: a buffer (bufferWrite, bufferRead, bufferClear), a queue (queueWrite,
\* queueRead, queueClear) or a stack (stackPush, stackPop, stackClear).
NextCleared ==
    \/ \E d \in Data : buffer.size > 0 /\ queue.slot_len = 0 /\ Call_bufferWrite(1, d)
    \/ buffer.size > 0 /\ queue.slot_len = 0 /\ Call_bufferRead(1)
    \/ buffer.size > 0 /\ queue.slot_len = 0 /\ Call_bufferClear(1, TRUE)
    \/ \E d \in Data : queue.slot_len > 0 /\ Call_queueWrite(1, TRUE, TRUE, d, 1)
    \/ queue.slot_len > 0 /\ Call_queueRead(1, TRUE, TRUE, 1)
    \/ queue.slot_len > 0 /\ Call_queueClear(1, TRUE)
    \/ \E d \in Data : stack.size > 0 /\ Call_stackPush(1, TRUE, TRUE, d)
    \/ stack.size > 0 /\ Call_stackPop(1, TRUE, TRUE)
    \/ stack.size > 0 /\ Call_stackClear(1, TRUE)
    \/ WriteSteps(1)
    \/ ReadSteps(1)
    \/ bufferClear(1)
    \/ queueWrite(1)
    \/ queueRead(1)
    \/ queueClear(1)
    \/ stackPush(1)
    \/ stackPop(1)
    \/ stackClear(1)

InitCleared ==
    \E N \in 1..BufSize :
        /\ th = [t \in Threads |-> Idle(BUFFER_OK)]
        /\ hist = Observer(N, TRUE, FALSE)
        /\ \/ CREATE_BUFFER(N, 1) /\ queue = NoQueue /\ stack = NoStack
           \/ CREATE_BUFFER(N, 1) /\ queue = CREATE_QUEUE(1, N) /\ stack = NoStack
           \/ CREATE_BUFFER(0, 0) /\ queue = NoQueue /\ stack = CREATE_STACK(N, 1)

SpecCleared == InitCleared /\ [][NextCleared]_vars

\* The blocks of the structure the caller's pointer points to.
Owned ==
    (IF allocator.lockp THEN {"Lock_t", "slot_state"} ELSE {})
    \cup CASE allocator.ptr = "buffer" -> {"Buffer", "raw"}
           [] allocator.ptr = "stack" -> {"Stack", "raw"}
           [] allocator.ptr = "queue" -> {"Queue", "msg_len", "Buffer", "raw"}
           [] OTHER -> {}

\* One thread making and destroying one structure at a time with an
\* allocator that may refuse any request and any return.  A structure is
\* destroyed only while all its blocks are in use: after a deallocation that
\* failed half way the caller's pointer may point to a block already handed
\* back.  A structure is made only while no block is in use.
NextAlloc ==
    \/ \E alloc \in BOOLEAN, size \in 0..BufSize :
          allocator.live = {} /\ Call_lockAllocate(1, alloc, size)
    \/ \E alloc \in BOOLEAN, size \in 0..BufSize, type_size \in 0..TypeSize :
          allocator.live = {} /\ Call_bufferAllocate(1, alloc, size, type_size)
    \/ \E alloc \in BOOLEAN, size \in 0..BufSize, type_size \in 0..TypeSize :
          allocator.live = {} /\ Call_stackAllocate(1, alloc, size, type_size)
    \/ \E alloc \in BOOLEAN, size \in 0..BufSize, slot_len \in 0..TypeSize :
          allocator.live = {} /\ Call_queueAllocate(1, alloc, slot_len, size)
    \/ \E alloc, ref \in BOOLEAN :
          Owned \subseteq allocator.live /\ Call_lockDeallocate(1, alloc, ref)
    \/ \E alloc, ref \in BOOLEAN :
          Owned \subseteq allocator.live /\ Call_bufferDeallocate(1, alloc, ref)
    \/ \E alloc, ref \in BOOLEAN :
          Owned \subseteq allocator.live /\ Call_stackDeallocate(1, alloc, ref)
    \/ \E alloc, ref \in BOOLEAN :
          Owned \subseteq allocator.live /\ Call_queueDeallocate(1, alloc, ref)

InitAlloc ==
    /\ CREATE_BUFFER(0, 0)
    /\ queue = NoQueue
    /\ stack = NoStack
    /\ th = [t \in Threads |-> Idle(BUFFER_OK)]
    /\ hist = Observer(0, FALSE, FALSE)

SpecAlloc == InitAlloc /\ [][NextAlloc]_vars
(* ------------------------------- claims ------------------------------- *)

\* Thread t is between a successful TAKE_WRITE_LOCK and its CLEAR_WRITE_LOCK
\* (respectively TAKE_READ_LOCK and CLEAR_READ_LOCK).
InWriteGate(t) ==
    th[t].pc \in {"wc_full", "wc_nospc", "wc_head", "wc_slot", "wc_busy", "wc_adv",
                  "wc_cmph", "wc_cmpt", "wc_setfull", "wc_unlock"}
InReadGate(t) ==
    th[t].pc \in {"rc_efull", "rc_ehead", "rc_etail", "rc_again", "rc_tail", "rc_slot",
                  "rc_busy", "rc_cmph", "rc_cmpt", "rc_clrfull", "rc_adv", "rc_unlock"}

\* C1: at most one thread at a time is between a successful TAKE_WRITE_LOCK
\* and the matching CLEAR_WRITE_LOCK, and at most one between a successful
\* TAKE_READ_LOCK and the matching CLEAR_READ_LOCK.
C1_GateExclusion ==
    \A t1, t2 \in Threads :
        t1 # t2 => /\ ~(InWriteGate(t1) /\ InWriteGate(t2))
                   /\ ~(InReadGate(t1) /\ InReadGate(t2))

\* C2: a TAKE_WRITE_LOCK (TAKE_READ_LOCK) succeeds iff the gate's flag is false
\* at the moment of the compare-and-set, and on success the flag is true.
C2_TakeIffFree ==
    [][\A t \in Threads :
          /\ (th[t].pc = "wc_cas" /\ th'[t].pc # "wc_cas")
                => /\ (th'[t].pc = "wc_full") <=> ~lock.write
                   /\ (th'[t].pc = "wc_full") => lock'.write
          /\ (th[t].pc = "rc_cas" /\ th'[t].pc # "rc_cas")
                => /\ (th'[t].pc = "rc_efull") <=> ~lock.read
                   /\ (th'[t].pc = "rc_efull") => lock'.read]_vars

\* Thread t owns the slot th[t].cur as a writer: its compare-and-set
\* Free -> Claimed succeeded and it has not yet made the slot Ready.
WriterHolds(t) ==
    \/ th[t].pc \in {"wc_adv", "wc_cmph", "wc_cmpt", "wc_setfull", "wc_unlock",
                     "w_copy", "w_ready", "u_fill"}
    \/ th[t].pc = "wr_cas" /\ th[t].op = "wsplit"

\* Thread t has advanced head for a write that has not yet returned.
HeadAdvanced(t) ==
    th[t].pc \in {"wc_cmph", "wc_cmpt", "wc_setfull", "wc_unlock", "w_copy", "w_ready"}

Quiet == \A t \in Threads : th[t].pc = "idle"

\* The bytes of slot s are those of the write that last committed it.
SlotIntact(s) == raw[s] = Payload(hist.commit[s], buffer.type_size)

\* C3: two threads calling bufferWrite concurrently: every call returns a slot
\* index, -EBUSY, or -ENOSPC (only when full); successful calls return distinct
\* indices; head has advanced by the number of successful calls modulo the
\* capacity; full ends true iff head has caught up with tail; and every byte of
\* a slot comes from the thread that claimed it.
C3_TwoWriters ==
    /\ \A t \in {1, 2} :
          /\ th[t].pc = "idle" => th[t].res \in Slots \cup {-EBUSY, -ENOSPC}
          /\ th[t].pc = "wc_nospc" => buffer.full
          /\ th[t].pc \in {"w_copy", "w_ready"} =>
                \A i \in 0..(buffer.type_size - 1) :
                    raw[th[t].cur][i] = IF i < th[t].i THEN th[t].data[i] ELSE 0
    /\ \A t1, t2 \in {1, 2} :
          (t1 # t2 /\ WriterHolds(t1) /\ WriterHolds(t2)) => th[t1].cur # th[t2].cur
    /\ Cardinality(hist.widx) = hist.nw
    /\ buffer.head = (hist.nw + Cardinality({t \in {1, 2} : HeadAdvanced(t)})) % buffer.size
    /\ Quiet => (buffer.full <=> (hist.nw > 0 /\ buffer.head = buffer.tail))
    /\ \A s \in Slots : lock.slot_state[s] = BUFFER_READY => SlotIntact(s)

\* Both threads copy their payloads at the same time, into different slots.
C3_Witness ==
    /\ th[1].pc = "w_copy" /\ th[2].pc = "w_copy"
    /\ th[1].i = 1 /\ th[2].i = 1
    /\ th[1].data # th[2].data

\* Thread t owns the slot th[t].cur as a reader: its compare-and-set
\* Ready -> Reading succeeded and it has not yet made the slot Free.
ReaderHolds(t) ==
    \/ th[t].pc \in {"rc_cmph", "rc_cmpt", "rc_clrfull", "rc_adv", "rc_unlock",
                     "r_copy", "r_free", "u_drain"}
    \/ th[t].pc = "rr_cas" /\ th[t].op = "rsplit"

\* Thread t is copying a payload into (out of) the slot at th[t].addr.
CopyingIn(t) == th[t].pc \in {"w_copy", "u_fill"}
CopyingOut(t) == th[t].pc \in {"r_copy", "u_drain"}

\* C4: for any mix of threads calling bufferWrite, bufferRead and the split
\* claim/release calls on indices they claimed, a thread that copies a payload
\* copies at the slot it claimed, that slot is Claimed (writer) or Reading
\* (reader), and no other thread holds a claim on the same slot.
C4_ExclusiveCopy ==
    /\ \A t \in Threads :
          /\ CopyingIn(t) => /\ th[t].addr = th[t].cur
                             /\ lock.slot_state[th[t].addr] = BUFFER_CLAIMED
          /\ CopyingOut(t) => /\ th[t].addr = th[t].cur
                              /\ lock.slot_state[th[t].addr] = BUFFER_READING
    /\ \A t1, t2 \in Threads :
          (/\ t1 # t2
           /\ WriterHolds(t1) \/ ReaderHolds(t1)
           /\ WriterHolds(t2) \/ ReaderHolds(t2)) => th[t1].cur # th[t2].cur

\* A writer and a reader copy at the same time, each in the middle of its
\* payload, while both gates are free.
C4_Witness ==
    /\ th[1].pc = "w_copy" /\ th[1].i = 1
    /\ th[2].pc = "r_copy" /\ th[2].i = 1
    /\ ~lock.write /\ ~lock.read

\* What holds of a reader t that has claimed a slot: the slot holds the bytes
\* of the write that last committed it, nobody is copying into it, and the
\* bytes t has copied out so far are bytes of that write.
ReadsCommitted(t) ==
    /\ ReaderHolds(t) =>
          /\ SlotIntact(th[t].cur)
          /\ \A u \in Threads : CopyingIn(u) => th[u].addr # th[t].cur
    /\ th[t].pc \in {"r_copy", "r_free"} =>
          \A i \in 0..(th[t].i - 1) : th[t].data[i] = hist.commit[th[t].cur]
    /\ th[t].pc = "r_free" =>
          th[t].data = Payload(hist.commit[th[t].cur], buffer.type_size)
    /\ (th[t].pc = "rr_cas" /\ th[t].op = "rsplit") =>
          th[t].data = Payload(hist.commit[th[t].cur], buffer.type_size)

\* C5: a read claims its slot only from state Ready; the bytes a successful
\* read copies out are exactly those of the write that last committed the
\* slot, never of a write still copying (although the write gate is released
\* before the copy); a read that finds the tail slot not Ready, or the buffer
\* empty or the gate busy, returns -EBUSY or -EAGAIN having copied nothing.
C5_ReadsCommitted ==
    [][\A t \in Threads :
          /\ ReadsCommitted(t)'
          /\ (th[t].pc = "rc_slot" /\ th'[t].pc = "rc_cmph") =>
                lock.slot_state[th[t].cur] = BUFFER_READY
          /\ (th[t].pc = "rc_slot" /\ lock.slot_state[th[t].cur] # BUFFER_READY
              /\ th'[t].pc # "rc_slot") => th'[t].pc = "rc_busy"
          /\ (th[t].pc \in ReadClaimLabels /\ th'[t].pc = "idle") =>
                /\ th'[t].res \in {-EBUSY, -EAGAIN}
                /\ th[t].data = Blank(buffer.type_size)
          /\ (th[t].pc = "r_free" /\ th'[t].pc = "idle") =>
                th'[t].res = th[t].cur]_vars

\* C6: with one writer and one reader calling bufferWrite and bufferRead in
\* any interleaving (one after the other included), the number of writes that
\* returned success minus the number of reads that returned success is always
\* between 0 and the capacity.
C6_OccupancyBounds == 0 <= hist.occ /\ hist.occ <= buffer.size

\* The buffer holds as many completed writes as it has slots while the reader
\* is copying the oldest out and the writer is attempting another write.
C6_Witness ==
    /\ buffer.size = BufSize
    /\ hist.occ = buffer.size
    /\ th[Reader].pc = "r_copy"
    /\ th[Writer].pc = "wc_slot"

\* The slots claimed by writes and not yet claimed by reads.
Unread == {s \in Slots : lock.slot_state[s] \in {BUFFER_CLAIMED, BUFFER_READY}}

NoGateHeld == \A t \in Threads : ~InWriteGate(t) /\ ~InReadGate(t)

\* C7: with one writer and one reader (one after the other included), whenever
\* no thread is inside a gate, full is true iff the number of slots claimed by
\* writes and not yet claimed by reads equals the capacity, full is never true
\* while head # tail, and the buffer is empty (!full && head == tail) iff no
\* written item is unread.
C7_FullIffAllUnread ==
    NoGateHeld =>
        /\ buffer.full <=> (Cardinality(Unread) = buffer.size)
        /\ buffer.full => buffer.head = buffer.tail
        /\ (~buffer.full /\ buffer.head = buffer.tail) <=> (Unread = {})

\* C8: with one writer and one reader that both keep running and retry after
\* every failure, calls keep succeeding: there is no point after which every
\* bufferWrite fails and every bufferRead fails.  (The claim says more, that
\* each side keeps succeeding; this is the part its last sentence states.)
C8_NeverWedged ==
    []<>(th[Writer].pc = "w_ready" \/ th[Reader].pc = "r_free")

\* The state that follows state v in the cycle Free -> Claimed -> Ready ->
\* Reading -> Free.
Successor(v) == (v + 1) % 4

\* C9: in any interleaving of the public operations (bufferWrite, bufferRead,
\* the claims, and the releases with any index in range), whenever a slot's
\* state changes, the new state is the successor of the old one in the cycle
\* Free -> Claimed -> Ready -> Reading -> Free.
C9_StateCycle ==
    [][\A s \in Slots :
          lock'.slot_state[s] # lock.slot_state[s] =>
              lock'.slot_state[s] = Successor(lock.slot_state[s])]_vars

\* C10: in sequential use the k-th successful bufferRead returns the payload
\* of the k-th successful bufferWrite; successful writes return the indices
\* 0, 1, ..., N-1, 0, ... in that order and successful reads the same
\* sequence; head and tail advance by 1 modulo N per success.
C10_FifoOrder ==
    /\ th[1].pc = "w_ready" => th[1].cur = hist.wseq
    /\ th[1].pc = "r_free" =>
          /\ th[1].cur = hist.rseq
          /\ hist.fifo # <<>>
          /\ th[1].data = Payload(Head(hist.fifo), buffer.type_size)
    /\ th[1].pc = "idle" =>
          /\ buffer.head = hist.wseq
          /\ buffer.tail = hist.rseq
          /\ Len(hist.fifo) = hist.occ

\* A read about to return index 0 for the second time: more writes than the
\* buffer has slots have succeeded, and the element read is the one written
\* after wrapping around, different from the one still in the buffer.
C10_Witness ==
    /\ buffer.size = BufSize /\ buffer.type_size = TypeSize
    /\ th[1].pc = "r_free" /\ th[1].cur = 0
    /\ hist.nw = buffer.size + 1
    /\ Len(hist.fifo) = 2 /\ hist.fifo[1] # hist.fifo[2]
    /\ th[1].data = Payload(hist.fifo[1], buffer.type_size)

\* C11: in sequential use, bufferWriteRaw(data, s) followed by the
\* bufferReadRaw(out, s) that consumes the slot yields out[0..s) = data[0..s);
\* only s bytes are copied in each direction (slot bytes and output bytes from
\* s on stay as they were); both calls return the same slot index, the write
\* the index of the slot it fills and the read the index of the slot it
\* empties, which is the oldest one written and not yet read.
C11_RawRoundTrip ==
    [][LET me == th[1]
           T == buffer.type_size
       IN
       /\ (me.pc = "w_ready" /\ th'[1].pc = "idle") =>
             /\ th'[1].res = me.cur /\ me.cur = hist.wseq
             /\ \A i \in 0..(me.size - 1) : raw[me.cur][i] = me.data[i]
       /\ (me.pc = "r_free" /\ th'[1].pc = "idle") =>
             /\ th'[1].res = me.cur /\ me.cur = hist.rseq
             /\ hist.fifo # <<>> /\ Head(hist.fifo) = hist.commit[me.cur]
             /\ me.size = hist.len[me.cur] =>
                   \A i \in 0..(T - 1) :
                       me.data[i] = IF i < me.size THEN hist.commit[me.cur] ELSE 0
       /\ \A x \in Slots : \A j \in 0..(T - 1) :
             raw'[x][j] # raw[x][j] =>
                 me.pc = "w_copy" /\ x = me.cur /\ j = me.i /\ j < me.size
       /\ (me.pc \in ReadClaimLabels \cup {"r_copy", "r_free"} /\ th'[1].pc # "idle") =>
             \A j \in 0..(T - 1) :
                 th'[1].data[j] # me.data[j] =>
                     me.pc = "r_copy" /\ j = me.i /\ j < me.size]_vars

\* A read of one byte is about to return: the slot was written with one byte
\* over an older, longer element whose second byte is still there, and only
\* the first byte has reached the output.
C11_Witness ==
    /\ th[1].pc = "r_free" /\ th[1].size = 1 /\ hist.len[th[1].cur] = 1
    /\ buffer.type_size = 2
    /\ raw[th[1].cur][1] \notin {0, raw[th[1].cur][0]}
    /\ th[1].data[0] = raw[th[1].cur][0] /\ th[1].data[1] = 0

\* C12: in sequential use, after exactly N successful writes to an empty
\* buffer of capacity N bufferIsFull is true, and a further bufferWrite
\* returns -ENOSPC with the write gate released, having changed neither head,
\* tail, full, a slot state nor a payload byte.
C12_FullBoundary ==
    [][LET me == th[1] IN
       /\ (th'[1].pc = "idle" /\ hist'.run = buffer'.size) => bufferIsFull(buffer')
       /\ (hist.run = buffer.size /\ me.op = "write") =>
             /\ buffer' = buffer
             /\ raw' = raw
             /\ lock'.slot_state = lock.slot_state
             /\ th'[1].pc = "idle" => (th'[1].res = -ENOSPC /\ ~lock'.write)]_vars

\* The further write is about to fail: the buffer was empty with head and
\* tail in the middle of the storage, and has been filled from there.
C12_Witness ==
    /\ buffer.size = BufSize
    /\ hist.run = buffer.size
    /\ th[1].pc = "wc_nospc"
    /\ buffer.head = buffer.tail /\ buffer.head # 0

\* C13: bufferRead on a buffer that is freshly created, or that has just been
\* reset by bufferClear whatever was written before, returns -EAGAIN with the
\* read gate released, does not modify the caller's output location, and
\* leaves head, tail, full and every slot state unchanged.
C13_EmptyBoundary ==
    [][LET me == th[1] IN
       (hist.fresh /\ me.op = "read") =>
           /\ buffer' = buffer
           /\ lock'.slot_state = lock.slot_state
           /\ me.data = Blank(buffer.type_size)
           /\ th'[1].pc = "idle" => (th'[1].res = -EAGAIN /\ ~lock'.read)]_vars

\* The read is about to fail on a buffer that was cleared while full: every
\* slot is still Ready and holds a payload.
C13_Witness ==
    /\ buffer.size = BufSize
    /\ hist.fresh /\ th[1].pc = "rc_again"
    /\ \A s \in Slots : lock.slot_state[s] = BUFFER_READY /\ raw[s] # Blank(buffer.type_size)

\* C14: bufferClear called in any state sets head = 0, tail = 0 and
\* full = false, and leaves size, type_size, the storage and every payload
\* byte unchanged (and with them the slot states and the gates).
C14_ClearFrame ==
    [][LET me == th[1] IN
       me.op = "clear" =>
           /\ raw' = raw
           /\ buffer'.size = buffer.size /\ buffer'.type_size = buffer.type_size
           /\ lock' = lock
           /\ th'[1].pc = "idle" =>
                 (buffer'.head = 0 /\ buffer'.tail = 0 /\ ~buffer'.full)]_vars

\* A clear of a full buffer whose head and tail were in the middle of the
\* storage is about to store full = false; the payloads are still there.
C14_Witness ==
    /\ buffer.size = BufSize
    /\ th[1].pc = "cl_full" /\ buffer.full
    /\ hist.pre.full /\ hist.pre.head # 0 /\ hist.pre.tail # 0
    /\ \A s \in Slots : raw[s] # Blank(buffer.type_size)

\* C15 as claimed: bufferClear called on an already-empty buffer leaves head,
\* tail and full exactly as they were before the call.
C15_ClearEmptyNoOp ==
    [][(th[1].pc = "cl_full" /\ th'[1].pc = "idle" /\ bufferIsEmpty(hist.pre)) =>
           /\ buffer'.head = hist.pre.head
           /\ buffer'.tail = hist.pre.tail
           /\ buffer'.full = hist.pre.full]_vars

\* C15 as amended: bufferClear called on an already-empty buffer leaves it
\* empty (full stays false, head = tail) with head and tail both 0; head and
\* tail are as they were before the call exactly when they were 0 already.
C15_ClearEmptyStaysEmpty ==
    [][(th[1].pc = "cl_full" /\ th'[1].pc = "idle" /\ bufferIsEmpty(hist.pre)) =>
           /\ bufferIsEmpty(buffer')
           /\ buffer'.full = hist.pre.full
           /\ buffer'.head = 0 /\ buffer'.tail = 0
           /\ (buffer'.head = hist.pre.head /\ buffer'.tail = hist.pre.tail)
                 <=> hist.pre.head = 0]_vars

\* A clear is about to return on a buffer that was empty, after writes and
\* reads, with head and tail in the middle of the storage.
C15_Witness ==
    /\ th[1].pc = "cl_full" /\ bufferIsEmpty(hist.pre) /\ hist.pre.head # 0
    /\ buffer.head = 0 /\ buffer.tail = 0

\* C16: bufferWriteRelease(index) returns BUFFER_OK and moves the slot from
\* Claimed to Ready if and only if the slot is Claimed when it is called;
\* otherwise it returns -EPERM and leaves the slot states, head, tail and
\* full unchanged.  bufferReadRelease(index) likewise succeeds iff the slot
\* is Reading and then sets it Free, else returns -EPERM with no change.
ReleaseEffect(t, label, expected, val) ==
    LET me == th[t]
        ok == lock.slot_state[me.cur] = expected
    IN
    (me.pc = label /\ th'[t].pc = "idle") =>
        /\ th'[t].res = BUFFER_OK <=> ok
        /\ ok => lock'.slot_state = [lock.slot_state EXCEPT ![me.cur] = val]
        /\ ~ok => (th'[t].res = -EPERM /\ lock'.slot_state = lock.slot_state)
        /\ buffer' = buffer /\ raw' = raw
        /\ lock'.read = lock.read /\ lock'.write = lock.write

WriteOutcome(from, data) ==
    LET b == from.buffer
        h == b.head
        nh == (h + 1) % b.size
        same == [buffer |-> b, raw |-> from.raw, slot_state |-> from.slot_state]
    IN
    IF b.full THEN [res |-> -ENOSPC] @@ same
    ELSE IF from.slot_state[h] # BUFFER_FREE THEN [res |-> -EBUSY] @@ same
    ELSE [res |-> h,
          buffer |-> [b EXCEPT !.head = nh, !.full = (nh = b.tail)],
          raw |-> [from.raw EXCEPT ![h] = data],
          slot_state |-> [from.slot_state EXCEPT ![h] = BUFFER_READY]]

ReadOutcome(from) ==
    LET b == from.buffer
        t == b.tail
        same == [buffer |-> b, raw |-> from.raw, slot_state |-> from.slot_state,
                 data |-> Blank(b.type_size)]
    IN
    IF bufferIsEmpty(b) THEN [res |-> -EAGAIN] @@ same
    ELSE IF from.slot_state[t] # BUFFER_READY THEN [res |-> -EBUSY] @@ same
    ELSE [res |-> t,
          buffer |-> [b EXCEPT !.tail = (t + 1) % b.size, !.full = FALSE],
          raw |-> from.raw,
          slot_state |-> [from.slot_state EXCEPT ![t] = BUFFER_FREE],
          data |-> from.raw[t]]

\* The buffer after the step is the one the outcome o describes, with both
\* gates free.
EndsIn(o) ==
    /\ buffer' = o.buffer /\ raw' = o.raw /\ lock'.slot_state = o.slot_state
    /\ ~lock'.write /\ ~lock'.read

\* The value the claim of a split call returned: an error the sequence
\* stopped at, or the index the release was then called with, which
\* returned BUFFER_OK.
ClaimReturned(label, r) ==
    IF th[1].pc = label
    THEN th[1].cur = r /\ th'[1].res = BUFFER_OK
    ELSE th'[1].res = r /\ r < BUFFER_OK

Flow ==
    <<"qwr_len", "qc_loop",
      "wc_load", "wc_cas", "wc_store", "wc_full", "wc_nospc", "wc_head", "wc_slot",
      "wc_busy", "wc_adv", "wc_cmph", "wc_cmpt", "wc_setfull", "wc_unlock",
      "w_copy", "w_ready", "qw_len", "u_fill", "wr_cas",
      "rc_load", "rc_cas", "rc_store", "rc_efull", "rc_ehead", "rc_etail", "rc_again",
      "rc_tail", "rc_slot", "rc_busy", "rc_cmph", "rc_cmpt", "rc_clrfull", "rc_adv",
      "rc_unlock", "r_copy", "r_free", "qr_len", "qr_pad", "qr_clr", "u_drain", "rr_cas",
      "cl_head", "cl_tail", "cl_full",
      "sp_load", "sp_cas", "sp_store", "sp_full", "sp_nospc", "sp_top", "sp_slot",
      "sp_busy", "sp_addr", "sp_inc", "sp_unlock", "sp_copy", "sp_ready",
      "pp_load", "pp_cas", "pp_store", "pp_empty", "pp_again", "pp_top", "pp_slot",
      "pp_busy", "pp_ld", "pp_dec", "pp_unlock", "pp_copy", "pp_free",
      "sc_top", "sc_full">>

\* More than the iterations any loop of the library makes: a memcpy copies
\* at most type_size bytes, queueClear visits size entries.
LoopBound == BufSize + TypeSize + 1

\* The iterations the loop thread record `me` is in still has to make.
LoopLeft(me) ==
    CASE me.pc \in {"w_copy", "r_copy", "sp_copy", "pp_copy"} -> me.size - me.i
      [] me.pc = "qc_loop" -> buffer.size - me.i
      [] OTHER -> 0

\* A bound on the steps the call of thread record `me` can still take.
StepsLeft(me) ==
    IF me.pc = "idle" THEN 0
    ELSE LET k == CHOOSE k \in 1..Len(Flow) : Flow[k] = me.pc
         IN (Len(Flow) - k + 1) * LoopBound + LoopLeft(me)

\* Thread t's next step is a compare-and-set that fails: on a gate, on the
\* slot state in a claim, on the slot state in a release.
FailedGate(t) ==
    LET me == th[t] IN
    \/ me.pc = "wc_cas" /\ lock.write # me.exp
    \/ me.pc = "rc_cas" /\ lock.read # me.exp
    \/ me.pc \in {"sp_cas", "pp_cas"} /\ stack.lock.write # me.exp
FailedClaim(t) ==
    LET me == th[t] IN
    \/ me.pc = "wc_slot" /\ lock.slot_state[me.cur] # BUFFER_FREE
    \/ me.pc = "rc_slot" /\ lock.slot_state[me.cur] # BUFFER_READY
    \/ /\ me.pc = "sp_slot" /\ me.cur \in StackSlots
       /\ stack.lock.slot_state[me.cur] # BUFFER_FREE
    \/ /\ me.pc = "pp_slot" /\ me.cur \in StackSlots
       /\ stack.lock.slot_state[me.cur] # BUFFER_READY
FailedRelease(t) ==
    LET me == th[t] IN
    \/ me.pc = "wr_cas" /\ lock.slot_state[me.cur] # BUFFER_CLAIMED
    \/ me.pc = "rr_cas" /\ lock.slot_state[me.cur] # BUFFER_READING

\* Where a call is after a failed compare-and-set of a gate or of a claim:
\* one store (of the value found, or of the gate it holds) from returning.
BusyExit ==
    {"wc_store", "rc_store", "sp_store", "pp_store",
     "wc_busy", "rc_busy", "sp_busy", "pp_busy"}

\* Every step of a call in progress can be taken whatever the other threads
\* are doing, brings the call nearer to its return, and after a failed
\* compare-and-set of a gate or of a claim the call returns -EBUSY with no
\* other access to a gate or a slot state than giving back the gate it holds.
NeverWaits == \A t \in Threads : th[t].pc # "idle" => ENABLED OpSteps(t)
StepsTowardsReturn(t) ==
    (th[t].pc # "idle" /\ th'[t] # th[t]) =>
        /\ StepsLeft(th'[t]) < StepsLeft(th[t])
        /\ (FailedGate(t) \/ FailedClaim(t)) => th'[t].pc \in BusyExit
        /\ th[t].pc \in BusyExit => (th'[t].pc = "idle" /\ th'[t].res = -EBUSY)

\* C18 as claimed: every call of every buffer, queue and stack operation
\* returns after a bounded number of its own steps whatever the other threads
\* do, nothing waits, spins or retries, and a failed gate acquisition or a
\* failed slot compare-and-set (the one of a release included) makes the call
\* return -EBUSY at once.
C18_NonBlockingAllBusy ==
    /\ []NeverWaits
    /\ [][\A t \in Threads :
             /\ StepsTowardsReturn(t)
             /\ (FailedRelease(t) /\ th'[t] # th[t]) =>
                   (th'[t].pc = "idle" /\ th'[t].res = -EBUSY)]_vars

\* C18 as amended: every call of every buffer, queue and stack operation
\* returns after a bounded number of its own steps whatever the other threads
\* do, nothing waits, spins or retries; a failed gate acquisition or a failed
\* slot compare-and-set of a claim makes the call return -EBUSY at once, and a
\* failed slot compare-and-set of a release makes it return -EPERM at once.
C18_NonBlocking ==
    /\ []NeverWaits
    /\ [][\A t \in Threads :
             /\ StepsTowardsReturn(t)
             /\ (FailedRelease(t) /\ th'[t] # th[t]) =>
                   (th'[t].pc = "idle" /\ th'[t].res = -EPERM)]_vars

\* One thread is about to fail the compare-and-set of a release while the
\* other thread, whose gate or claim compare-and-set failed, is about to
\* return.
C18_Witness ==
    /\ FailedRelease(1)
    /\ th[2].pc \in BusyExit

\* Slot s was claimed with bufferWriteClaim and the claim was not released
\* (the slot is Claimed and no call in progress holds it); a call found the
\* buffer f with such a slot at its tail.
Abandoned(s) == lock.slot_state[s] = BUFFER_CLAIMED /\ ~WriteInProgress(s)
StuckAtCall(f) ==
    /\ f.slot_state[f.buffer.tail] = BUFFER_CLAIMED
    /\ f.buffer.tail \notin f.held

\* C19: a slot obtained with bufferWriteClaim and never released stays
\* Claimed forever; every bufferRead / bufferReadClaim called once tail has
\* reached that slot returns -EBUSY, and tail stays there, and every write
\* called once the buffer has moreover become full returns -ENOSPC.
C19_AbandonedClaim ==
    [][/\ \A s \in Slots : Abandoned(s) => Abandoned(s)'
       /\ Abandoned(buffer.tail) => buffer'.tail = buffer.tail
       /\ (Abandoned(buffer.tail) /\ buffer.full) => buffer'.full
       /\ \A t \in Threads :
             LET me == th[t] IN
             (th'[t].pc = "idle" /\ me.from # <<>> /\ StuckAtCall(me.from)) =>
                 /\ me.op \in {"read", "rsplit"} => th'[t].res = -EBUSY
                 /\ (me.op \in {"write", "wclaim"} /\ me.from.buffer.full) =>
                        th'[t].res = -ENOSPC]_vars

\* The call of thread t returned -EINVAL in this step, and the step took no
\* gate and changed neither head, tail, full, a slot state, a length-table
\* entry nor a payload byte.
Rejected(t) ==
    /\ th'[t].pc = "idle"
    /\ th'[t].res = -EINVAL
    /\ UNCHANGED <<buffer, raw, lock, queue, allocator>>

\* C20: bufferWriteRaw and bufferReadRaw called with a null buffer, a null
\* data pointer, size 0 or a size greater than type_size, and queueWrite and
\* queueRead called with a null queue, null data or length 0, return -EINVAL
\* without acquiring a gate and without changing head, tail, full, a slot
\* state, a length-table entry or a payload byte.
C20_InvalidArgsRejected ==
    [][\A t \in Threads :
          (th[t].pc = "idle" /\ th'[t] # th[t]) =>
              \A p, dat \in BOOLEAN, n \in Sizes :
                  /\ ( /\ ~p \/ ~dat \/ n = 0 \/ n > buffer.type_size
                       /\ \/ \E d \in Data : Call_bufferWriteRaw(t, p, dat, d, n)
                          \/ Call_bufferReadRaw(t, p, dat, n) ) => Rejected(t)
                  /\ ( /\ ~p \/ ~dat \/ n = 0
                       /\ \/ \E d \in Data : Call_queueWrite(t, p, dat, d, n)
                          \/ Call_queueRead(t, p, dat, n) ) => Rejected(t)]_vars

\* An invalid call has just returned -EINVAL while another thread is inside
\* a gate and the structure holds an element that no read has claimed.
C20_Witness ==
    \E t, o \in Threads :
        /\ t # o
        /\ th[t].pc = "idle" /\ th[t].res = -EINVAL
        /\ th[o].pc # "idle"
        /\ lock.read \/ lock.write
        /\ \E s \in Slots : lock.slot_state[s] = BUFFER_READY

(* The build without USE_ATOMIC: TAKE_READ_LOCK, TAKE_WRITE_LOCK and
   EXPECT_SLOT_STATE are `true`, CLEAR_READ_LOCK, CLEAR_WRITE_LOCK and
   SET_SLOT_STATE are `{}`.  With them the functions of buffer.c are the
   following functions of the Buffer b and its storage r. *)
Plain_bufferWrite(b, r, data) ==
    IF b.full THEN [res |-> -ENOSPC, buffer |-> b, raw |-> r]
    ELSE LET cur_head == b.head
             head == (cur_head + 1) % b.size
         IN [res |-> cur_head,
             buffer |-> [b EXCEPT !.head = head,
                                  !.full = IF head = b.tail THEN TRUE ELSE b.full],
             raw |-> [r EXCEPT ![cur_head] = data]]

Plain_bufferRead(b, r) ==
    IF bufferIsEmpty(b)
    THEN [res |-> -EAGAIN, buffer |-> b, raw |-> r, data |-> Blank(b.type_size)]
    ELSE LET cur_tail == b.tail IN
         [res |-> cur_tail,
          buffer |-> [b EXCEPT !.full = IF b.head = b.tail THEN FALSE ELSE b.full,
                               !.tail = (cur_tail + 1) % b.size],
          raw |-> r,
          data |-> r[cur_tail]]

Plain_bufferClear(b, r) ==
    [buffer |-> [b EXCEPT !.head = 0, !.tail = 0, !.full = FALSE], raw |-> r]

\* C21: for every single-threaded sequence of bufferWrite, bufferRead and
\* bufferClear calls, the atomic-mode buffer and the non-atomic build return
\* the same result from every call and hold the same head, tail, full and
\* payload after every call.  (The non-atomic build's buffer is head, tail,
\* full and payload alone, so the two agree along a sequence iff every call
\* of the atomic build returns and leaves what the non-atomic function
\* returns and leaves from the head, tail, full and payload the call found.)
C21_BuildsAgree ==
    [][LET me == th[1] IN
       (th'[1].pc = "idle" /\ me.pc # "idle") =>
           /\ me.op = "write" =>
                 LET o == Plain_bufferWrite(me.from.buffer, me.from.raw, me.data) IN
                 th'[1].res = o.res /\ buffer' = o.buffer /\ raw' = o.raw
           /\ me.op = "read" =>
                 LET o == Plain_bufferRead(me.from.buffer, me.from.raw) IN
                 /\ th'[1].res = o.res /\ buffer' = o.buffer /\ raw' = o.raw
                 /\ me.data = o.data
           /\ me.op = "clear" =>
                 LET o == Plain_bufferClear(me.from.buffer, me.from.raw) IN
                 buffer' = o.buffer /\ raw' = o.raw]_vars

\* The bytes of slot content old after the first n bytes of data were
\* copied over it.
Overlay(old, data, n) == [i \in DOMAIN old |-> IF i < n THEN data[i] ELSE old[i]]

\* The length of the caller's message.
Length(data) == Cardinality(DOMAIN data)

\* The maximum length L a queueRead was called with: its output location
\* is followed by one more byte.
MaxLength(data) == Cardinality(DOMAIN data) - 1

\* C22: queueWrite(data, len) with len >= 1 on a non-full queue returns
\* min(len, slot_len), stores exactly the first min(len, slot_len) bytes of
\* data in the slot at the old head, leaves that slot's remaining bytes and
\* all other slots unchanged, and records min(len, slot_len) in msg_len at
\* the slot index the buffer reported; on a full queue it returns -ENOSPC
\* and changes neither the slots nor msg_len.
C22_QueueWrite ==
    [][LET me == th[1]
           f == me.from
           n == Min(Length(me.data), queue.slot_len)
       IN
       (th'[1].pc = "idle" /\ me.op = "qwrite") =>
           IF f.buffer.full
           THEN /\ th'[1].res = -ENOSPC
                /\ raw' = f.raw
                /\ queue'.msg_len = f.msg_len
           ELSE /\ th'[1].res = n
                /\ raw' = [f.raw EXCEPT ![f.buffer.head] = Overlay(@, me.data, n)]
                /\ me.cur = f.buffer.head
                /\ queue'.msg_len = [f.msg_len EXCEPT ![me.cur] = n]]_vars

\* A queueWrite of a message longer than slot_len is about to return on a
\* queue that held another message, into a slot used before.
C22_Witness ==
    LET me == th[1] IN
    /\ me.pc = "qw_len"
    /\ Length(me.data) > queue.slot_len
    /\ \E s \in Slots : s # me.cur /\ queue.msg_len[s] > 0
    /\ \E i \in 0..(buffer.type_size - 1) :
           me.from.raw[me.cur][i] \notin {0, raw[me.cur][i]}

\* C23: a successful queueRead(data, L) of a stored message of length m
\* returns min(L, m), leaves data[0..min(L,m)) equal to the first bytes of
\* the message, sets every byte data[i] with min(L,m) <= i < L to zero (also
\* when L is larger than slot_len), and sets the msg_len entry of the
\* consumed slot to 0.
C23_QueueRead ==
    [][LET me == th[1]
           f == me.from
           tail == f.buffer.tail
           L == MaxLength(me.data)
           m == f.msg_len[tail]
       IN
       (th'[1].pc = "idle" /\ me.op = "qread" /\ th'[1].res >= BUFFER_OK) =>
           /\ th'[1].res = Min(L, m)
           /\ \A i \in 0..(Min(L, m) - 1) : me.data[i] = f.raw[tail][i]
           /\ \A i \in Min(L, m)..(L - 1) : me.data[i] = 0
           /\ queue'.msg_len[tail] = 0]_vars

\* Slot i lies in the circular range from tail up to but excluding head (all
\* slots when full).
InRange(i) ==
    \/ buffer.full
    \/ buffer.tail < buffer.head /\ buffer.tail <= i /\ i < buffer.head
    \/ buffer.head < buffer.tail /\ (buffer.tail <= i \/ i < buffer.head)

\* Slot i holds a message that was written and published and that no read
\* has claimed.
HoldsMessage(i) == InRange(i) /\ lock.slot_state[i] = BUFFER_READY

\* C24: in every state of a queue driven by queueWrite, queueRead,
\* queueClear and the split calls in which no call is in progress,
\* msg_len[i] is 0 for every slot i that does not hold written-and-unread
\* data, and equals the clamped length of the stored message for every slot
\* that does.
C24_MsgLenTracksSlots ==
    (\A t \in Threads : th[t].pc = "idle") =>
        \A i \in Slots :
            queue.msg_len[i] = IF HoldsMessage(i) THEN hist.len[i] ELSE 0

\* C25: queueRead with a maximum length L smaller than the stored message
\* length m returns L, writes only data[0..L) and leaves the output bytes
\* from L on untouched, and removes the whole message: the m - L unread
\* bytes are discarded, the slot's msg_len becomes 0 and the next read
\* returns the next message or -EAGAIN.  (The read after it, like every
\* read, starts at byte 0 of the slot at tail, which has moved on, and
\* returns -EAGAIN when the queue is empty.)
C25_TruncatedRead ==
    [][LET me == th[1]
           f == me.from
           tail == f.buffer.tail
           L == MaxLength(me.data)
           m == f.msg_len[tail]
       IN
       (th'[1].pc = "idle" /\ me.op = "qread") =>
           /\ bufferIsEmpty(f.buffer) => th'[1].res = -EAGAIN
           /\ th'[1].res >= BUFFER_OK =>
                 /\ th'[1].res = Min(L, m)
                 /\ \A i \in 0..(Min(L, m) - 1) : me.data[i] = f.raw[tail][i]
           /\ (th'[1].res >= BUFFER_OK /\ L < m) =>
                 /\ th'[1].res = L
                 /\ \A i \in L..(Length(me.data) - 1) : me.data[i] = Untouched(i + 1)[i]
                 /\ queue'.msg_len[tail] = 0
                 /\ buffer'.tail = (tail + 1) % buffer.size
                 /\ lock'.slot_state[tail] = BUFFER_FREE
                 /\ raw' = f.raw]_vars

\* A queueRead with a maximum length smaller than the stored message is
\* about to return on a queue that holds a later message as well.
C25_Witness ==
    LET me == th[1] IN
    /\ me.pc = "qr_clr"
    /\ MaxLength(me.data) < me.from.msg_len[me.cur]
    /\ \E s \in Slots : s # me.cur /\ HoldsMessage(s)

\* C26: in every state of a stack in which no call is in progress, the full
\* flag is true if and only if top == size: after `size` successful pushes
\* full is true, and after a following successful pop it is false again.
C26_FullIffTopIsSize ==
    (\A t \in Threads : th[t].pc = "idle") => (stack.full <=> stack.top = stack.size)

\* The element most recently pushed and not yet popped, as the observer
\* recorded it.
LastPushed == Payload(hist.fifo[Len(hist.fifo)], stack.type_size)

\* C27: for every sequential sequence of stackPush and stackPop calls on a
\* stack of capacity N, each successful pop returns the payload of the most
\* recent successful push that has not yet been popped (LIFO), each
\* successful push increments top by 1 and each successful pop decrements it
\* by 1, and a push that failed because the stack was full succeeds after
\* one pop (a push fails for lack of space exactly when it finds top == N,
\* and succeeds otherwise).
C27_StackLIFO ==
    [][LET me == th[1]
           f == me.from
       IN
       th'[1].pc = "idle" =>
           /\ me.op = "push" =>
                 /\ th'[1].res = -ENOSPC <=> f.stack.top = f.stack.size
                 /\ th'[1].res >= BUFFER_OK <=> f.stack.top < f.stack.size
                 /\ th'[1].res >= BUFFER_OK => stack'.top = f.stack.top + 1
           /\ (me.op = "pop" /\ th'[1].res >= BUFFER_OK) =>
                 /\ stack'.top = f.stack.top - 1
                 /\ hist.fifo # <<>>
                 /\ me.data = LastPushed]_vars

\* A pop is about to return on a stack that held two elements with
\* different payloads.
C27_Witness ==
    /\ th[1].pc = "pp_free"
    /\ Len(hist.fifo) = 2
    /\ hist.fifo[1] # hist.fifo[2]

\* C28: stackPush on a stack with top == size returns -ENOSPC and stackPop
\* on a stack with top == 0 returns -EAGAIN; in both cases top, every slot
\* state and every stored payload byte are unchanged, the caller's output
\* location of the pop is not written, and the shared gate is released on
\* return.
C28_StackBoundaries ==
    [][LET me == th[1]
           f == me.from
           kept == /\ stack'.top = f.stack.top
                   /\ stack'.lock.slot_state = f.stack.lock.slot_state
                   /\ stack'.raw = f.stack.raw
                   /\ ~stack'.lock.write
       IN
       th'[1].pc = "idle" =>
           /\ (me.op = "push" /\ f.stack.top = f.stack.size) =>
                 th'[1].res = -ENOSPC /\ kept
           /\ (me.op = "pop" /\ f.stack.top = 0) =>
                 /\ th'[1].res = -EAGAIN /\ kept
                 /\ me.data = Untouched(stack.type_size)]_vars

\* A stackPop is about to return -EAGAIN on a stack that has been used and
\* emptied again.
C28_Witness ==
    /\ th[1].pc = "pp_again"
    /\ stack.top = 0
    /\ \E s \in StackSlots : stack.raw[s] # Blank(stack.type_size)

C30_StackReturnsOK ==
    [][(th'[1].pc = "idle" /\ th[1].pc \in {"sp_ready", "pp_free"}) =>
           th'[1].res = STACK_OK]_vars

\* Thread t is between a successful TAKE_STACK_LOCK and its CLEAR_STACK_LOCK.
InStackGate(t) ==
    th[t].pc \in {"sp_full", "sp_nospc", "sp_top", "sp_slot", "sp_busy", "sp_addr",
                  "sp_inc", "sp_unlock",
                  "pp_empty", "pp_again", "pp_top", "pp_slot", "pp_busy", "pp_ld",
                  "pp_dec", "pp_unlock"}

\* C31: with any threads calling stackPush and stackPop on one stack, no two
\* of them are inside the gate-protected section at the same time; between
\* calls top is the number of pushes that succeeded minus the number of pops
\* that succeeded, always 0 <= top <= size, and the pushes that succeeded
\* since the last successful pop returned different indices.
C31_StackGate ==
    /\ \A t1, t2 \in Threads : t1 # t2 => ~(InStackGate(t1) /\ InStackGate(t2))
    /\ (\A t \in Threads : th[t].pc = "idle") => stack.top = hist.occ
    /\ stack.top \in 0..stack.size
    /\ Cardinality(hist.widx) = hist.nw

\* The last call made with the allocator was one of the constructors.
Constructed == allocator.op \in {"bufferAllocate", "queueAllocate", "stackAllocate",
                                "lockAllocate"}

\* C32: when an allocator call made inside bufferAllocate, queueAllocate,
\* stackAllocate or lockAllocate fails, the constructor returns NULL and has
\* handed back every block it obtained in the call; when the allocator takes
\* them all back, the blocks in use are those in use before the call.
C32_AllocationUnwinds ==
    [][(allocator' # allocator /\ Constructed' /\ allocator'.afail)
       => /\ allocator'.ptr = "null"
          /\ allocator'.got \subseteq allocator'.back
          /\ allocator'.live \cap allocator'.got = {} => allocator'.live = allocator.live]_vars

\* The last call made with the allocator was a bufferDeallocate,
\* queueDeallocate or stackDeallocate that reached its sub-deallocations.
Destroyed ==
    /\ allocator.op \in {"bufferDeallocate", "queueDeallocate", "stackDeallocate"}
    /\ allocator.back # {}

\* C33: bufferDeallocate, queueDeallocate and stackDeallocate return success
\* and set the caller's pointer to NULL iff every sub-deallocation succeeded;
\* when one of them failed they return a failure code and leave the caller's
\* pointer non-NULL.
C33_DeallocateAllOrFail ==
    [][(allocator' # allocator /\ Destroyed')
       => /\ (allocator'.ok /\ allocator'.ptr = "null") <=> ~allocator'.dfail
          /\ allocator'.dfail => (~allocator'.ok /\ allocator'.ptr # "null")]_vars

\* Thread t's step takes it out of the write gate, the read gate, the stack
\* gate.
LeavesWriteGate(t) == InWriteGate(t) /\ ~InWriteGate(t)'
LeavesReadGate(t) == InReadGate(t) /\ ~InReadGate(t)'
LeavesStackGate(t) == InStackGate(t) /\ ~InStackGate(t)'

TailToHead ==
    IF buffer.full THEN Slots
    ELSE {s \in Slots : (s - buffer.tail) % buffer.size
                           < (buffer.head - buffer.tail) % buffer.size}

\* C35: on a buffer that is never cleared, whenever no thread is inside a
\* gate, exactly the slots from tail up to but excluding head (all the slots
\* when full) are Claimed or Ready, and every other slot is Free or Reading.
C35_UnreadIsTailToHead ==
    NoGateHeld =>
        \A s \in Slots :
            IF s \in TailToHead
            THEN lock.slot_state[s] \in {BUFFER_CLAIMED, BUFFER_READY}
            ELSE lock.slot_state[s] \in {BUFFER_FREE, BUFFER_READING}

\* The capacity of the structure of the program.
Capacity == IF stack.size > 0 THEN stack.size ELSE buffer.size

\* C36: after a clear made with no operation in flight, each of the next
\* `size` writes (pushes) of the thread succeeds, and the reads (pops) that
\* follow them succeed and give back the payloads written: a buffer and a
\* queue the oldest one not yet read, a stack the newest one not yet popped.
C36_WritableAfterClear ==
    [][LET me == th[1] IN
       /\ (me.pc # "idle" /\ th'[1].pc = "idle"
           /\ me.op \in {"write", "qwrite", "push"} /\ hist.clr \in 0..(Capacity - 1))
             => th'[1].res >= 0
       /\ (me.pc # "idle" /\ th'[1].pc = "idle"
           /\ me.op \in {"read", "qread", "pop"} /\ hist.clr = Capacity
           /\ hist.fifo # <<>>)
             => th'[1].res >= 0
       /\ (me.pc \in {"r_free", "pp_free"} /\ hist.clr = Capacity /\ hist.fifo # <<>>)
             => me.data[0] = (IF me.op = "pop" THEN hist.fifo[Len(hist.fifo)]
                              ELSE Head(hist.fifo))]_vars


\* C37: with one thread calling queueWrite and another calling queueRead on
\* one queue, every successful queueRead(data, L) returns min(L, m) for the
\* length m of the message it copied, never 0 and never the length of
\* another message, and its final store to msg_len never clears the entry
\* recorded for a later message written into the same slot.
C37_ReadReturnsOwnLength ==
    [][LET me == th[Reader] IN
       (me.pc = "qr_clr" /\ th'[Reader].pc = "idle") =>
           /\ th'[Reader].res = Min(me.size, hist.got)
           /\ th'[Reader].res > 0
           /\ (lock.slot_state[me.cur] = BUFFER_READY /\ th[Writer].pc # "qw_len")
                 => queue'.msg_len[me.cur] = queue.msg_len[me.cur]]_vars


\* C38: queueWriteRelease(index, len) changes msg_len[index] only when the
\* release succeeds: when it returns -EPERM because slot index is not
\* Claimed, the length table is exactly as it was before the call.
C38_FailedReleaseKeepsLengths ==
    [][LET me == th[1] IN
       (me.op = "qwrel" /\ me.cur \in Slots
        /\ th'[1].pc = "idle" /\ th'[1].res = -EPERM)
           => queue'.msg_len = me.from.msg_len]_vars

\* C39: whatever queue operations are called, queueWriteRelease with any
\* len included, every msg_len entry is at most slot_len, and no queueRead
\* reports more than slot_len bytes.
C39_LengthsWithinSlot ==
    [][/\ \A i \in DOMAIN queue'.msg_len : queue'.msg_len[i] <= queue.slot_len
       /\ (th[1].op = "qread" /\ th'[1].pc = "idle")
              => th'[1].res <= queue.slot_len]_vars

\* C40: a bufferWriteRelease, bufferReadRelease, queueWriteRelease or
\* queueReadRelease called with index >= size returns an error, and none of
\* them takes a step that reads or writes slot_state[index] or
\* msg_len[index] with index outside 0..size-1.
C40_ReleaseChecksIndex ==
    [][LET me == th[1] IN
       /\ (me.op \in {"wrel", "rrel", "qwrel"} /\ me.cur >= buffer.size
           /\ th'[1].pc = "idle")
              => th'[1].res < BUFFER_OK
       /\ (me.pc \in {"wr_cas", "rr_cas", "qwr_len"} /\ th'[1] # me)
              => me.cur \in Slots]_vars

====
